---- MODULE Spec2Model ----
(***************************************************************************)
(* A model of the tutorial scripts of LLM_Learning: the OpenAI agents      *)
(* scripts (agents/2_openai) and the CrewAI flow (CREWAI_FLOW/test_flow).  *)
(* One behaviour is one run of one script: Init picks the script and its   *)
(* environment, then the script's entry function runs step by step.        *)
(* External collaborators (the LLM client, the agents SDK's Runner, the    *)
(* asyncio scheduler, SendGrid, the file system, stdin) are modelled by    *)
(* nondeterministic outcomes.                                              *)
(***************************************************************************)
EXTENDS Naturals, Sequences, FiniteSets, TLC

\* ------------------------------------------------------------------ bounds

\* The largest number of searches the planner's WebSearchPlan holds.
MaxSearches == 3
\* The largest number of turns one Runner.run of a tool-using agent takes.
MaxTurns == 2

\* ------------------------------------------------------- program constants

\* agent_names of the draft-selection script: three draft agents.
NumDraftAgents == 3

\* --------------------------------------------------------------- exceptions

\* Python's class hierarchy of the exceptions the scripts can meet.
ExcParent ==
  [ Exception |-> "BaseException",
    OpenAIError |-> "Exception",
    RateLimitError |-> "OpenAIError",
    ModelBehaviorError |-> "Exception",
    InputGuardrailTripwireTriggered |-> "Exception",
    AuthenticationError |-> "OpenAIError",
    ApiKeyIncludedException |-> "Exception",
    ValueError |-> "Exception",
    JSONDecodeError |-> "ValueError",
    ValidationError |-> "ValueError",
    TypeError |-> "Exception",
    AttributeError |-> "Exception",
    KeyError |-> "Exception",
    OSError |-> "Exception",
    EOFError |-> "Exception",
    HTTPError |-> "Exception",
    NotConnected |-> "Exception" ]

RECURSIVE IsInstance(_, _)
\* isinstance(e, cls): the class of e is cls or a subclass of it.
IsInstance(type, cls) ==
  IF type = cls THEN TRUE
  ELSE IF type \in DOMAIN ExcParent THEN IsInstance(ExcParent[type], cls)
  ELSE FALSE

\* An exception object: its class and its args (no argument or one message).
Exc(type, args) == [type |-> type, args |-> args]
NoExc == [type |-> "none", args |-> <<>>]

\* str(e) of an exception: "" without args, the argument with one.
Str(e) == IF e.args = <<>> THEN "" ELSE e.args[1]

\* What a Runner.run of an agent can raise: a provider error or an SDK error.
RunnerExcs ==
  { Exc("RateLimitError", <<"rate limit">>),
    Exc("ModelBehaviorError", <<"invalid output">>) }

\* --------------------------------------------------------------------- state

VARIABLES
  script,    \* the script this run executes
  env,       \* the environment: which API keys are set
  pc,        \* the position of the entry function
  exc,       \* the exception in flight (NoExc when none)
  printed,   \* what print() has written, in order
  log,       \* the calls made to external collaborators, in order
  plan,      \* the search plan (a sequence of queries) of the research script
  tasks,     \* the fan-out's tasks, in launch order: [status, result, exc]
  order,     \* the indices of the finished tasks, in completion order
  results,   \* what gather returned (<<>> before)
  report,    \* the writer's report of the research script
  outbox,    \* the emails submitted to the mail provider, in order
  agent,     \* the agent a Runner.run of a tool-using agent is running
  turns,     \* the turns that Runner.run has taken
  guard,     \* the input guardrail of that run: none, pending, passed, tripped
  local,     \* kickoff's local variables: input_name, audience_level, topic_name
  state,     \* HelloFlow's state, a UserInput record (extra fields allowed)
  files,     \* the JSON files of the "output" directory
  ret        \* what the last step of the flow returned (its listener's input)

vars == <<script, env, pc, exc, printed, log, plan, tasks, order, results, report,
          outbox, agent, turns, guard, local, state, files, ret>>

\* The variables of the fan-out and of the agent run, for UNCHANGED.
fan == <<plan, tasks, order, results, report>>
run == <<agent, turns, guard>>
flow == <<local, state, files, ret>>

Scripts == {"lab1", "lab2_part1", "lab2_part2", "lab2_part3", "lab3_part1", "lab4_part1",
            "test_flow"}

Envs == [OPENAI_API_KEY : BOOLEAN, SENDGRID_API_KEY : BOOLEAN]

\* A printed line: a format string and the value formatted into it
\* (f"{fmt}{arg}{arg2}"; a plain message has arg = arg2 = "").
P(fmt, arg) == [fmt |-> fmt, arg |-> arg, arg2 |-> ""]

\* A logged call to an external collaborator.
Call(ev, who, name) == [ev |-> ev, agent |-> who, name |-> name, arg |-> <<>>, res |-> [status |-> ""]]

\* ------------------------------------------------------------- the fan-out

NoResult == [of |-> 0, v |-> 0]
\* The outputs an LLM call can give for input i: two different texts.
Outputs(i) == { [of |-> i, v |-> v] : v \in 1..2 }

PendingTask == [status |-> "pending", result |-> NoResult]

AllDone(ts) == \A i \in 1..Len(ts) : ts[i].status = "done"

\* A variant of Gather that collects the results as the calls complete.
GatherInCompletionOrder(ts, ord) == [i \in 1..Len(ord) |-> ts[ord[i]].result]

\* The list asyncio.gather returns: the i-th awaitable's result at index i.
Gather(ts, ord) == [i \in 1..Len(ts) |-> ts[i].result]

\* A variant of GatherStep that returns as soon as one call is done.
GatherStepFirstCompleted(ts, e) ==
  IF e # NoExc THEN "raise"
  ELSE IF \E i \in 1..Len(ts) : ts[i].status = "done" THEN "return"
  ELSE "wait"

\* A variant of GatherStep that behaves like return_exceptions = True: it
\* waits for every call and returns whatever they ended with.
GatherStepReturnsExceptions(ts, e) ==
  IF \A i \in 1..Len(ts) : ts[i].status # "pending" THEN "return" ELSE "wait"

\* What awaiting asyncio.gather(*aws) does next (return_exceptions is False):
\* it raises the first exception as soon as one awaitable has failed, returns
\* the list once all are done, and waits otherwise.
GatherStep(ts, e) ==
  IF e # NoExc THEN "raise"
  ELSE IF AllDone(ts) THEN "return"
  ELSE "wait"

\* A variant of TaskFinishes in which the calls keep their output in one
\* variable shared between them: the call that finishes overwrites the output
\* of the calls that are done.
TaskFinishesSharedOutput(i) ==
  /\ pc = "gather"
  /\ i \in 1..Len(tasks)
  /\ tasks[i].status = "pending"
  /\ order' = Append(order, i)
  /\ \/ /\ \E r \in Outputs(i) :
             tasks' = [k \in 1..Len(tasks) |->
                         IF k = i \/ tasks[k].status = "done"
                         THEN [status |-> "done", result |-> r] ELSE tasks[k]]
        /\ exc' = exc
     \/ /\ tasks' = [tasks EXCEPT ![i] = [status |-> "failed", result |-> NoResult]]
        /\ \E e \in RunnerExcs : exc' = IF exc = NoExc THEN e ELSE exc
  /\ UNCHANGED <<script, env, pc, printed, log, plan, results, report, outbox, run, flow>>

\* One launched call finishes while the launcher awaits the gather: with a
\* result, or with an exception (the first one is what gather raises).
TaskFinishes(i) ==
  /\ pc = "gather"
  /\ i \in 1..Len(tasks)
  /\ tasks[i].status = "pending"
  /\ order' = Append(order, i)
  /\ \/ /\ \E r \in Outputs(i) :
             tasks' = [tasks EXCEPT ![i] = [status |-> "done", result |-> r]]
        /\ exc' = exc
     \/ /\ tasks' = [tasks EXCEPT ![i] = [status |-> "failed", result |-> NoResult]]
        /\ \E e \in RunnerExcs : exc' = IF exc = NoExc THEN e ELSE exc
  /\ UNCHANGED <<script, env, pc, printed, log, plan, results, report, outbox, run, flow>>

\* ------------------------------------------------ the entry functions' handlers

\* The two except clauses of main: "except OpenAIError" first, then
\* "except Exception"; the message printed for exception e.
\* (1_lab1 and 2_lab2_part1 spell the first message "OpenAI APU Error".)
ProviderMessage(s) ==
  IF s \in {"lab1", "lab2_part1"} THEN "OpenAI APU Error : " ELSE "OpenAI API Error : "

\* A variant of MainHandler with the generic clause only.
MainHandlerGenericOnly(s, e) == P("An unexpected error occurred : ", Str(e))

MainHandler(s, e) ==
  IF IsInstance(e.type, "OpenAIError") THEN P(ProviderMessage(s), Str(e))
  ELSE P("An unexpected error occurred : ", Str(e))

\* main's except clauses run: one message is printed and main returns.
MainExcept ==
  /\ pc = "except"
  /\ IsInstance(exc.type, "Exception")
  /\ printed' = Append(printed, MainHandler(script, exc))
  /\ exc' = NoExc
  /\ pc' = "exit"
  /\ UNCHANGED <<script, env, log, fan, outbox, run, flow>>

\* asyncio.run(main(...)) returns: the event loop is closed, which cancels the
\* tasks that are still pending (the runtime's doing, after main has returned).
LoopClose ==
  /\ pc = "exit"
  /\ tasks' = [i \in 1..Len(tasks) |->
                IF tasks[i].status = "pending"
                THEN [tasks[i] EXCEPT !.status = "cancelled"] ELSE tasks[i]]
  /\ pc' = "exited"
  /\ UNCHANGED <<script, env, exc, printed, log, plan, order, results, report, outbox, run, flow>>

\* ------------------------------------------- 4_lab4_part1: the research script

\* The module-level key check: without OPENAI_API_KEY the import raises
\* ValueError, outside any try, and the process ends before main is called.
Lab4_KeyCheck ==
  /\ script = "lab4_part1"
  /\ pc = "import"
  /\ IF env.OPENAI_API_KEY
     THEN pc' = "main" /\ exc' = exc
     ELSE /\ pc' = "crashed"
          /\ exc' = Exc("ValueError", <<"One or more required environment variables are not set.">>)
  /\ UNCHANGED <<script, env, printed, log, fan, outbox, run, flow>>

Lab4_main ==
  /\ script = "lab4_part1"
  /\ pc = "main"
  /\ printed' = Append(printed, P("Starting research...", ""))
  /\ pc' = "plan_searches"
  /\ UNCHANGED <<script, env, exc, log, fan, outbox, run, flow>>

\* plan_searches up to its await: the planner agent is run.
plan_searches ==
  /\ script = "lab4_part1"
  /\ pc = "plan_searches"
  /\ printed' = Append(printed, P("Planning searches...", ""))
  /\ log' = Append(log, Call("run", "Planner Agent", "plan_searches"))
  /\ pc' = "plan_await"
  /\ UNCHANGED <<script, env, exc, fan, outbox, run, flow>>

\* A variant of plan_searches_resume that swallows the planner's failure and
\* goes on with an empty plan.
plan_searches_resume_swallows ==
  /\ script = "lab4_part1"
  /\ pc = "plan_await"
  /\ \/ /\ \E n \in 0..MaxSearches : plan' = [i \in 1..n |-> i]
        /\ printed' = printed \o << P("Will perform ", "{len(searches)} searches"),
                                      P("Searches: ", "{searches}"),
                                      P("Finished planning searches", "") >>
     \/ /\ plan' = <<>>
        /\ printed' = printed
  /\ pc' = "perform_searches"
  /\ UNCHANGED <<script, env, exc, log, tasks, order, results, report, outbox, run, flow>>

\* The planner's run ends: with a plan of n searches, or with an exception
\* that leaves plan_searches.
plan_searches_resume ==
  /\ script = "lab4_part1"
  /\ pc = "plan_await"
  /\ \/ /\ \E n \in 0..MaxSearches : plan' = [i \in 1..n |-> i]
        /\ printed' = printed \o << P("Will perform ", "{len(searches)} searches"),
                                      P("Searches: ", "{searches}"),
                                      P("Finished planning searches", "") >>
        /\ pc' = "perform_searches"
        /\ exc' = exc
     \/ /\ \E e \in RunnerExcs : exc' = e
        /\ pc' = "except"
        /\ UNCHANGED <<plan, printed>>
  /\ UNCHANGED <<script, env, log, tasks, order, results, report, outbox, run, flow>>

\* perform_searches up to its await: one task per item of the plan, each
\* running the search agent, then the gather is awaited.
perform_searches ==
  /\ script = "lab4_part1"
  /\ pc = "perform_searches"
  /\ printed' = Append(printed, P("Searching...", ""))
  /\ tasks' = [i \in 1..Len(plan) |-> PendingTask]
  /\ log' = log \o [i \in 1..Len(plan) |-> Call("run", "Search Agent", "search")]
  /\ pc' = "gather"
  /\ UNCHANGED <<script, env, exc, plan, order, results, report, outbox, run, flow>>

\* The await of the gather ends in perform_searches: the list is returned to
\* main, or the first failure is raised through perform_searches into main.
perform_searches_resume ==
  /\ script = "lab4_part1"
  /\ pc = "gather"
  /\ GatherStep(tasks, exc) # "wait"
  /\ IF GatherStep(tasks, exc) = "return"
     THEN /\ results' = Gather(tasks, order)
          /\ printed' = printed \o << P("Got ", "{len(results)} search results"),
                                        P("Results: ", "{results}"),
                                        P("Finished searching", "") >>
          /\ pc' = "write_report"
     ELSE /\ pc' = "except"
          /\ UNCHANGED <<results, printed>>
  /\ UNCHANGED <<script, env, exc, log, plan, tasks, order, report, outbox, run, flow>>

\* write_report up to its await: the writer agent is run.
write_report ==
  /\ script = "lab4_part1"
  /\ pc = "write_report"
  /\ printed' = printed \o << P("Thinking about report...", ""),
                                P("Input Passed to writer agent ", "{input}"),
                                P("Writing report...", "") >>
  /\ log' = Append(log, Call("run", "Writer Agent", "write_report"))
  /\ pc' = "write_await"
  /\ UNCHANGED <<script, env, exc, fan, outbox, run, flow>>

write_report_resume ==
  /\ script = "lab4_part1"
  /\ pc = "write_await"
  /\ \/ /\ report' = "ReportData"
        /\ printed' = printed \o << P("Finished writing report", ""),
                                      P("Report summary: ", "{short_summary}") >>
        /\ pc' = "send_email"
        /\ exc' = exc
     \/ /\ \E e \in RunnerExcs : exc' = e
        /\ pc' = "except"
        /\ UNCHANGED <<report, printed>>
  /\ UNCHANGED <<script, env, log, plan, tasks, order, results, outbox, run, flow>>

\* -------------------------------------------------------- the mail provider

\* The fixed addresses of every mail tool.
FromEmail == "siddharthwolverine@gmail.com"
ToEmail == "siddharth13101999singh@gmail.com"

\* The subjects and bodies an LLM passes to a mail tool. The second body starts
\* with text of the shape of a SendGrid API key, which the sendgrid helpers
\* refuse when the message is constructed (ApiKeyIncludedException, raised
\* without arguments).
Subjects == {"Report", "Hello"}
Bodies == {"<p>report</p>", "SG.abc.def"}
KeyLikeBodies == {"SG.abc.def"}

\* How one use of the SendGrid client ends: at which call, and with which
\* exception (NoExc: the provider accepted the email). Message construction
\* fails for a key-like body; without SENDGRID_API_KEY the client is still
\* constructed (api_key = None) and the provider rejects the submission.
MailOutcomes(e, body) ==
  IF body \in KeyLikeBodies
  THEN { [at |-> "Mail", exc |-> Exc("ApiKeyIncludedException", <<>>)] }
  ELSE IF ~e.SENDGRID_API_KEY
  THEN { [at |-> "send", exc |-> Exc("HTTPError", <<"HTTP Error 401: Unauthorized">>)] }
  ELSE { [at |-> "send", exc |-> NoExc],
         [at |-> "send", exc |-> Exc("HTTPError", <<"HTTP Error 403: Forbidden">>)] }

\* A variant of Email in which the recipient is taken from the tool's first
\* argument.
EmailAddressedByArgument(subject, body, mime, e, o) ==
  [from |-> FromEmail, to |-> subject, subject |-> subject, body |-> body,
   mime |-> mime, key |-> e.SENDGRID_API_KEY, accepted |-> (o.exc = NoExc)]

\* The email a submission hands to the provider.
Email(subject, body, mime, e, o) ==
  [from |-> FromEmail, to |-> ToEmail, subject |-> subject, body |-> body,
   mime |-> mime, key |-> e.SENDGRID_API_KEY, accepted |-> (o.exc = NoExc)]

\* A variant of Submit that submits a refused email a second time.
SubmitAgainOnFailure(box, subject, body, mime, e, o) ==
  IF o.at # "send" THEN box
  ELSE IF o.exc = NoExc THEN Append(box, Email(subject, body, mime, e, o))
  ELSE Append(Append(box, Email(subject, body, mime, e, o)), Email(subject, body, mime, e, o))

\* The outbox after one use of the client: the email is submitted unless the
\* failure came before the send.
Submit(box, subject, body, mime, e, o) ==
  IF o.at = "send" THEN Append(box, Email(subject, body, mime, e, o)) ELSE box

\* send_html_email(subject, html_body) of 4_lab4_part1 and 3_lab3_part1, and
\* send_email(body) of 2_lab2_part3: no try; the dict is returned when the
\* post returned, and any exception leaves the tool.
FunctionToolResult(o) ==
  IF o.exc = NoExc THEN [status |-> "success"] ELSE [raised |-> Str(o.exc)]

\* ------------------------------------------------- Runner.run of an agent

\* The tools each agent is given.
SalesTools == {"professional_sales_agent", "engaging_sales_agent",
               "busy_sales_agent", "sales_picker"}

\* A variant of AgentTools in which the Sales Manager of 3_lab3_part1 is
\* given the mail tool as well.
AgentToolsManagerSends(s, a) ==
  IF s = "lab4_part1" /\ a = "Email Agent" THEN {"send_html_email"}
  ELSE IF s = "lab2_part3" /\ a = "Sales Manager" THEN SalesTools \cup {"send_email"}
  ELSE IF s = "lab3_part1" /\ a = "Sales Manager" THEN SalesTools \cup {"send_html_email"}
  ELSE IF s = "lab3_part1" /\ a = "Email Manager"
  THEN {"email_subject_writer", "html_email_body_converter", "send_html_email"}
  ELSE {}

AgentTools(s, a) ==
  IF s = "lab4_part1" /\ a = "Email Agent" THEN {"send_html_email"}
  ELSE IF s = "lab2_part3" /\ a = "Sales Manager" THEN SalesTools \cup {"send_email"}
  ELSE IF s = "lab3_part1" /\ a = "Sales Manager" THEN SalesTools
  ELSE IF s = "lab3_part1" /\ a = "Email Manager"
  THEN {"email_subject_writer", "html_email_body_converter", "send_html_email"}
  ELSE {}

\* The agents each agent can hand off to.
AgentHandoffs(s, a) ==
  IF s = "lab3_part1" /\ a = "Sales Manager" THEN {"Email Manager"} ELSE {}

\* send_email(body) of 2_lab2_part3 fixes the subject and sends plain text;
\* send_html_email(subject, html_body) takes the subject and sends HTML.
ToolSubjects(t) == IF t = "send_email" THEN {"Test email"} ELSE Subjects
ToolMime(t) == IF t = "send_email" THEN "text/plain" ELSE "text/html"

MailTools == {"send_email", "send_html_email"}

\* While the run's input guardrails are pending only the first turn of the
\* starting agent runs: Runner.run awaits the guardrails together with that
\* turn (model call and tool calls), and starts no second turn before both
\* are done.
FirstTurnOnly(g, n) == g = "pending" => n = 0

\* The log entry of a tool call: its arguments and what it returned.
ToolCall(who, name, args, res) ==
  [ev |-> "tool", agent |-> who, name |-> name, arg |-> args, res |-> res]

\* One turn of the running agent calls one of its tools. A mail tool uses the
\* SendGrid client once; the SDK's function_tool wrapper catches what the tool
\* raises and hands the error text to the LLM, so the run goes on.
AgentToolCall ==
  /\ pc = "agent_run"
  /\ turns < MaxTurns
  /\ FirstTurnOnly(guard, turns)
  /\ turns' = turns + 1
  /\ \E t \in AgentTools(script, agent) :
       IF t \in MailTools
       THEN \E subject \in ToolSubjects(t), body \in Bodies :
              \E o \in MailOutcomes(env, body) :
                /\ outbox' = Submit(outbox, subject, body, ToolMime(t), env, o)
                /\ log' = Append(log, ToolCall(agent, t, <<subject, body>>,
                                               FunctionToolResult(o)))
       ELSE /\ outbox' = outbox
            /\ log' = Append(log, ToolCall(agent, t, <<>>, [status |-> "text"]))
  /\ UNCHANGED <<script, env, pc, exc, printed, fan, agent, guard, flow>>

\* The running agent hands off: the next turn runs the agent handed to.
AgentHandoff ==
  /\ pc = "agent_run"
  /\ turns < MaxTurns
  /\ guard # "pending"
  /\ \E to \in AgentHandoffs(script, agent) :
       /\ agent' = to
       /\ log' = Append(log, Call("handoff", agent, to))
  /\ turns' = turns + 1
  /\ UNCHANGED <<script, env, pc, exc, printed, fan, outbox, guard, flow>>

\* send_email of the research script up to its await: the email agent is run
\* on the report.
Lab4_send_email ==
  /\ script = "lab4_part1"
  /\ pc = "send_email"
  /\ printed' = Append(printed, P("Writing email...", ""))
  /\ log' = Append(log, Call("run", "Email Agent", "send_email"))
  /\ agent' = "Email Agent"
  /\ turns' = 0
  /\ pc' = "agent_run"
  /\ UNCHANGED <<script, env, exc, fan, outbox, guard, flow>>

\* The email agent's run ends: with a final output, whatever its tool calls
\* did ("Email sent" is printed), or with an exception that leaves send_email.
Lab4_send_email_resume ==
  /\ script = "lab4_part1"
  /\ pc = "agent_run"
  /\ \/ /\ printed' = Append(printed, P("Email sent", ""))
        /\ pc' = "hooray"
        /\ exc' = exc
     \/ /\ \E e \in RunnerExcs : exc' = e
        /\ pc' = "except"
        /\ printed' = printed
  /\ UNCHANGED <<script, env, log, fan, outbox, run, flow>>

\* The last statement of main's try block.
Lab4_hooray ==
  /\ script = "lab4_part1"
  /\ pc = "hooray"
  /\ printed' = Append(printed, P("Hooray!", ""))
  /\ pc' = "exit"
  /\ UNCHANGED <<script, env, exc, log, fan, outbox, run, flow>>

\* ----------------------------------- 1_lab1, 2_lab2_part1: one agent, one run

MissingKey == Exc("ValueError", <<"One or more required environment variables are not set.">>)

\* The largest number of text deltas a streamed run prints.
MaxDeltas == 1

Deltas(pr) == Cardinality({i \in 1..Len(pr) : pr[i].fmt = "delta"})

\* main up to its first await: the key check inside the try, then the agent is
\* run (1_lab1: Runner.run; 2_lab2_part1: Runner.run_streamed).
Single_main ==
  /\ script \in {"lab1", "lab2_part1"}
  /\ pc = "main"
  /\ IF ~env.OPENAI_API_KEY
     THEN exc' = MissingKey /\ pc' = "except" /\ log' = log
     ELSE /\ exc' = exc
          /\ log' = Append(log, Call("run", IF script = "lab1" THEN "ci-assistant"
                                            ELSE "Professional Sales Agent", "main"))
          /\ pc' = IF script = "lab1" THEN "await_run" ELSE "stream"
  /\ UNCHANGED <<script, env, printed, fan, outbox, run, flow>>

\* 1_lab1: the run ends and its final output is printed, or it raises.
Lab1_resume ==
  /\ script = "lab1"
  /\ pc = "await_run"
  /\ \/ /\ printed' = Append(printed, P("final_output", ""))
        /\ pc' = "exit"
        /\ exc' = exc
     \/ /\ \E e \in RunnerExcs : exc' = e
        /\ pc' = "except"
        /\ printed' = printed
  /\ UNCHANGED <<script, env, log, fan, outbox, run, flow>>

\* The loop over result.stream_events(): a text delta is printed, the stream
\* ends, or the streamed run raises.
StreamEvents ==
  /\ pc = "stream"
  /\ \/ /\ Deltas(printed) < MaxDeltas
        /\ printed' = Append(printed, P("delta", ""))
        /\ UNCHANGED <<pc, exc>>
     \/ /\ pc' = "exit"
        /\ UNCHANGED <<printed, exc>>
     \/ /\ \E e \in RunnerExcs : exc' = e
        /\ pc' = "except"
        /\ printed' = printed
  /\ UNCHANGED <<script, env, log, fan, outbox, run, flow>>

\* ------------------------------------ 2_lab2_part2: the draft-selection script

\* main up to the await of the gather: the key check, the three draft agents
\* and the picker are created, and one Runner.run per draft agent is launched.
Lab2p2_main ==
  /\ script = "lab2_part2"
  /\ pc = "main"
  /\ IF ~env.OPENAI_API_KEY
     THEN exc' = MissingKey /\ pc' = "except" /\ UNCHANGED <<log, tasks>>
     ELSE /\ exc' = exc
          /\ tasks' = [i \in 1..NumDraftAgents |-> PendingTask]
          /\ log' = log \o [i \in 1..NumDraftAgents |-> Call("run", "Sales Agent", "main")]
          /\ pc' = "gather"
  /\ UNCHANGED <<script, env, printed, plan, order, results, report, outbox, run, flow>>

\* The await of the gather ends in main: the outputs are joined into the
\* picker's input and the picker is run streamed, or the first failure is
\* raised into main's handlers.
Lab2p2_gather_resume ==
  /\ script = "lab2_part2"
  /\ pc = "gather"
  /\ GatherStep(tasks, exc) # "wait"
  /\ IF GatherStep(tasks, exc) = "return"
     THEN /\ results' = Gather(tasks, order)
          /\ log' = Append(log, [Call("run_streamed", "Sales Picker", "main")
                                  EXCEPT !.arg = Gather(tasks, order)])
          /\ pc' = "stream"
     ELSE /\ pc' = "except"
          /\ UNCHANGED <<results, log>>
  /\ UNCHANGED <<script, env, exc, printed, plan, tasks, order, report, outbox, run, flow>>

\* ------------------------------ 2_lab2_part3: the Sales Manager and its tools

\* main up to its await: the key check, the agents and tools are created and
\* the Sales Manager is run.
Lab2p3_main ==
  /\ script = "lab2_part3"
  /\ pc = "main"
  /\ IF ~env.OPENAI_API_KEY
     THEN exc' = MissingKey /\ pc' = "except" /\ UNCHANGED <<log, agent>>
     ELSE /\ exc' = exc
          /\ log' = Append(log, Call("run", "Sales Manager", "main"))
          /\ agent' = "Sales Manager"
          /\ pc' = "agent_run"
  /\ UNCHANGED <<script, env, printed, fan, outbox, turns, guard, flow>>

\* The run of the manager ends: main's try block is left normally, or the
\* run raises into main's handlers. (2_lab2_part3 and 3_lab3_part1.)
Manager_resume ==
  /\ script \in {"lab2_part3", "lab3_part1"}
  /\ pc = "agent_run"
  /\ guard # "pending"
  /\ \/ pc' = "exit" /\ exc' = exc
     \/ /\ \E e \in RunnerExcs : exc' = e
        /\ pc' = "except"
  /\ UNCHANGED <<script, env, printed, log, fan, outbox, run, flow>>

\* ------------------------------ 3_lab3_part1: guardrail and handoff

\* What the name-check agent can answer.
NameCheckOutputs ==
  { [is_name_in_message |-> FALSE, name |-> ""],
    [is_name_in_message |-> TRUE, name |-> "Alice"] }

\* guardrail_against_name: the guardrail's output for the name check's answer.
guardrail_against_name(out) ==
  [output_info |-> [found_name |-> out], tripwire_triggered |-> out.is_name_in_message]

\* main up to its await: the key check, the agents are created and the Sales
\* Manager is run with its input guardrail, which runs the name-check agent.
Lab3_main ==
  /\ script = "lab3_part1"
  /\ pc = "main"
  /\ IF ~env.OPENAI_API_KEY
     THEN exc' = MissingKey /\ pc' = "except" /\ UNCHANGED <<log, agent, guard>>
     ELSE /\ exc' = exc
          /\ log' = log \o << Call("run", "Sales Manager", "main"),
                              Call("run", "Name check", "guardrail_against_name") >>
          /\ agent' = "Sales Manager"
          /\ guard' = "pending"
          /\ pc' = "agent_run"
  /\ UNCHANGED <<script, env, printed, fan, outbox, turns, flow>>

\* The guardrail's check ends: the tripwire makes Runner.run raise
\* InputGuardrailTripwireTriggered, a failed name check raises its error, and
\* otherwise the run goes on.
GuardrailEnds ==
  /\ pc = "agent_run"
  /\ guard = "pending"
  /\ \/ \E out \in NameCheckOutputs :
          /\ log' = Append(log, [Call("guardrail", "Name check", "guardrail_against_name")
                                  EXCEPT !.res = [status |-> IF guardrail_against_name(out).tripwire_triggered
                                                             THEN "tripped" ELSE "passed"],
                                         !.arg = <<out.name>>])
          /\ IF guardrail_against_name(out).tripwire_triggered
             THEN /\ guard' = "tripped"
                  /\ exc' = Exc("InputGuardrailTripwireTriggered", <<"Guardrail InputGuardrail triggered tripwire">>)
                  /\ pc' = "except"
             ELSE /\ guard' = "passed"
                  /\ UNCHANGED <<exc, pc>>
     \/ /\ \E e \in RunnerExcs : exc' = e
        /\ pc' = "except"
        /\ guard' = "failed"
        /\ log' = log
  /\ UNCHANGED <<script, env, printed, fan, outbox, agent, turns, flow>>

\* ------------------------------------------------ test_flow: text and JSON

\* Text typed at a prompt is a sequence of characters.
Whitespace == {" ", "\t"}
LowerOf == [A |-> "a", B |-> "b", D |-> "d", E |-> "e", I |-> "i", M |-> "m",
            N |-> "n", R |-> "r", T |-> "t", V |-> "v", C |-> "c"]

RECURSIVE LStrip(_)
LStrip(t) == IF t # <<>> /\ Head(t) \in Whitespace THEN LStrip(Tail(t)) ELSE t
RECURSIVE RStrip(_)
RStrip(t) ==
  IF t # <<>> /\ t[Len(t)] \in Whitespace THEN RStrip(SubSeq(t, 1, Len(t) - 1)) ELSE t
\* str.strip(): the text without its leading and trailing whitespace.
Strip(t) == RStrip(LStrip(t))
\* str.lower(): every upper-case letter replaced by its lower-case letter.
Lower(t) == [i \in 1..Len(t) |-> IF t[i] \in DOMAIN LowerOf THEN LowerOf[t[i]] ELSE t[i]]

\* An optional value: None, or Some(x).
None == <<>>
Some(x) == <<x>>

\* schemas.AudienceLevel: the value of each member.
AudienceLevel ==
  [ beginner |-> <<"b", "e", "g", "i", "n", "n", "e", "r">>,
    intermediate |-> <<"i", "n", "t", "e", "r", "m", "e", "d", "i", "a", "t", "e">>,
    advanced |-> <<"a", "d", "v", "a", "n", "c", "e", "d">> ]

\* AudienceLevel(value): the members with that value (none: ValueError).
AudienceLevelOf(value) == {m \in DOMAIN AudienceLevel : AudienceLevel[m] = value}

\* What the user types at the prompts.
NameInputs == { <<" ">>, <<" ", "A", "n", "n", " ">> }
TopicInputs == { <<>>, <<"A", "I">>, <<"$", "x">> }
AudienceInputs ==
  { <<"b", "e", "g", "i", "n", "n", "e", "r">>,
    <<" ", "A", "d", "v", "a", "n", "c", "e", "d", " ">>,
    <<"I", "N", "T", "E", "R", "M", "E", "D", "I", "A", "T", "E">>,
    <<"e", "x", "p", "e", "r", "t">> }

\* The largest number of inputs kickoff rejects in one run.
MaxRetries == 2

\* JSON values.
JStr(x) == [t |-> "str", s |-> x]
JInt(n) == [t |-> "int", n |-> n]
JList(l) == [t |-> "list", l |-> l]
JDict(d) == [t |-> "dict", d |-> d]

\* The text an LLM call returns: JSON text of a value, or other text.
JsonText(v) == [json |-> TRUE, val |-> v]
NotJson == [json |-> FALSE, val |-> JStr("Sure, here is the lecture")]

\* json.loads(text): the value, or JSONDecodeError.
json_loads(text) ==
  IF text.json THEN [exc |-> NoExc, val |-> text.val]
  ELSE [exc |-> Exc("JSONDecodeError", <<"Expecting value: line 1 column 1 (char 0)">>),
        val |-> text.val]

IsStrList(v) == v.t = "list" /\ \A i \in 1..Len(v.l) : v.l[i].t = "str"

\* A variant of GeneratedResponse that ignores important_points and always
\* takes the default.
GeneratedResponseDefaultsPoints(v) ==
  IF v.t # "dict"
  THEN [exc |-> Exc("TypeError", <<"argument after ** must be a mapping">>), val |-> None]
  ELSE IF \/ {"greeting_message", "lecture_content"} \ DOMAIN v.d # {}
          \/ v.d.greeting_message.t # "str"
          \/ v.d.lecture_content.t # "str"
  THEN [exc |-> Exc("ValidationError", <<"validation error for GeneratedResponse">>), val |-> None]
  ELSE [exc |-> NoExc,
        val |-> Some([greeting_message |-> v.d.greeting_message.s,
                      important_points |-> <<>>,
                      lecture_content |-> v.d.lecture_content.s])]

\* GeneratedResponse(**v): the validated record, TypeError when v is no
\* mapping, ValidationError when a required field is missing or ill-typed.
\* important_points defaults to the empty list; other keys are ignored.
GeneratedResponse(v) ==
  IF v.t # "dict"
  THEN [exc |-> Exc("TypeError", <<"argument after ** must be a mapping">>), val |-> None]
  ELSE IF \/ {"greeting_message", "lecture_content"} \ DOMAIN v.d # {}
          \/ v.d.greeting_message.t # "str"
          \/ v.d.lecture_content.t # "str"
          \/ ("important_points" \in DOMAIN v.d /\ ~IsStrList(v.d.important_points))
  THEN [exc |-> Exc("ValidationError", <<"validation error for GeneratedResponse">>), val |-> None]
  ELSE [exc |-> NoExc,
        val |-> Some([greeting_message |-> v.d.greeting_message.s,
                      important_points |->
                        IF "important_points" \in DOMAIN v.d
                        THEN [i \in 1..Len(v.d.important_points.l) |-> v.d.important_points.l[i].s]
                        ELSE <<>>,
                      lecture_content |-> v.d.lecture_content.s])]

\* A variant of ConstrainedInt without the range: any integer.
UnconstrainedInt(v) == v.t = "int"

\* ConstrainedInt = conint(ge = 1, le = 10)
ScoreMin == 1
ScoreMax == 10
ConstrainedInt(v) == v.t = "int" /\ v.n >= ScoreMin /\ v.n <= ScoreMax

\* EvaluatorResponse(**v): score_card is optional (None when absent or null);
\* when given it is a mapping whose every value is a ConstrainedInt.
EvaluatorResponse(v) ==
  IF v.t # "dict"
  THEN [exc |-> Exc("TypeError", <<"argument after ** must be a mapping">>), val |-> None]
  ELSE IF "score_card" \notin DOMAIN v.d \/ v.d.score_card.t = "null"
  THEN [exc |-> NoExc, val |-> Some([score_card |-> None])]
  ELSE IF \/ v.d.score_card.t # "dict"
          \/ \E k \in DOMAIN v.d.score_card.d : ~ConstrainedInt(v.d.score_card.d[k])
  THEN [exc |-> Exc("ValidationError", <<"validation error for EvaluatorResponse">>), val |-> None]
  ELSE [exc |-> NoExc,
        val |-> Some([score_card |->
                        Some([k \in DOMAIN v.d.score_card.d |-> v.d.score_card.d[k].n])])]

\* What the LLM can answer to the lecture prompt and to the evaluation prompt.
CreationTexts ==
  { NotJson,
    JsonText(JList(<<>>)),
    JsonText(JDict([greeting_message |-> JStr("Hello")])),
    JsonText(JDict([greeting_message |-> JStr("Hello"),
                    important_points |-> JList(<<JStr("p1")>>),
                    lecture_content |-> JStr("Lecture")])),
    JsonText(JDict([greeting_message |-> JStr("Hi"),
                    lecture_content |-> JStr("Short")])) }

EvaluatorTexts ==
  { NotJson,
    JsonText(JDict([score_card |-> JDict([p1 |-> JInt(7)])])),
    JsonText(JDict([score_card |-> JDict([p1 |-> JInt(11)])])),
    JsonText(JDict([score_card |-> JDict([p1 |-> JInt(0)])])),
    JsonText(JDict([p1 |-> JInt(7)])) }

\* How LLM(...).call ends: the provider's error, or a text. The flow checks
\* no key itself: without OPENAI_API_KEY the call is made and refused.
LlmOutcomes(e, texts) ==
  IF ~e.OPENAI_API_KEY
  THEN { [exc |-> Exc("AuthenticationError", <<"The api_key client option must be set">>),
          text |-> NotJson] }
  ELSE { [exc |-> Exc("RateLimitError", <<"rate limit">>), text |-> NotJson] }
       \cup { [exc |-> NoExc, text |-> x] : x \in texts }

\* How makedirs / open / json.dump end: all done, or OSError before the file
\* is opened, or OSError after open(..., "w") has truncated it.
FsOutcomes ==
  { [at |-> "done", exc |-> NoExc],
    [at |-> "open", exc |-> Exc("OSError", <<"[Errno 13] Permission denied">>)],
    [at |-> "dump", exc |-> Exc("OSError", <<"[Errno 28] No space left on device">>)] }

\* A file of the output directory: absent, left by an earlier run, or the
\* JSON value written by this run (Truncated: opened for writing, not dumped).
Absent == [t |-> "absent"]
Stale == [t |-> "stale"]
Truncated == [t |-> "truncated"]

\* A variant of WriteFile in which the value reaches the file whatever
\* happens.
WriteFileAlways(old, v, fs) == v

\* The file after the step's "with open(path, 'w') as f: json.dump(v, f)".
WriteFile(old, v, fs) ==
  IF fs.at = "done" THEN v
  ELSE IF fs.at = "dump" THEN Truncated
  ELSE old

\* ------------------------------------------- test_flow: string.Template

\* The characters of an identifier (Template.idpattern, [_a-z][_a-z0-9]*,
\* matched ignoring case).
IdentStart ==
  {"_", "a", "b", "c", "d", "e", "f", "g", "h", "i", "j", "k", "l", "m", "n", "o", "p",
   "q", "r", "s", "t", "u", "v", "w", "x", "y", "z", "A", "B", "I", "N"}
IdentChars == IdentStart \cup {"0", "1", "2", "3", "4", "5", "6", "7", "8", "9"}

RECURSIVE IdentPrefix(_)
IdentPrefix(t) ==
  IF t # <<>> /\ Head(t) \in IdentChars THEN <<Head(t)>> \o IdentPrefix(Tail(t)) ELSE <<>>
\* The identifier the text starts with (<<>>: none).
Ident(t) == IF t # <<>> /\ Head(t) \in IdentStart THEN IdentPrefix(t) ELSE <<>>

Drop(t, n) == SubSeq(t, n + 1, Len(t))

\* The identifier of the braced placeholder "{id}" the text starts with.
Braced(t) ==
  IF /\ t # <<>> /\ Head(t) = "{"
     /\ Ident(Tail(t)) # <<>>
     /\ Len(t) >= Len(Ident(Tail(t))) + 2
     /\ t[Len(Ident(Tail(t))) + 2] = "}"
  THEN Ident(Tail(t)) ELSE <<>>

\* The text x followed by the result of substituting the rest.
Then(x, rest) ==
  IF rest.exc # NoExc THEN rest ELSE [exc |-> NoExc, out |-> x \o rest.out]

\* A variant of substitute that behaves like Template.safe_substitute: a
\* placeholder without value, or an invalid one, is left in place.
RECURSIVE safe_substitute(_, _)
safe_substitute(t, v) ==
  IF t = <<>> THEN [exc |-> NoExc, out |-> <<>>]
  ELSE IF Head(t) # "$" THEN Then(<<Head(t)>>, safe_substitute(Tail(t), v))
  ELSE LET r == Tail(t)
       IN IF r # <<>> /\ Head(r) = "$" THEN Then(<<"$">>, safe_substitute(Tail(r), v))
          ELSE IF Ident(r) # <<>> /\ Ident(r) \in DOMAIN v
          THEN Then(v[Ident(r)], safe_substitute(Drop(r, Len(Ident(r))), v))
          ELSE IF Braced(r) # <<>> /\ Braced(r) \in DOMAIN v
          THEN Then(v[Braced(r)], safe_substitute(Drop(r, Len(Braced(r)) + 2), v))
          ELSE Then(<<"$">>, safe_substitute(r, v))

\* Template(t).substitute(**v): one pass from left to right. "$$" gives "$";
\* "$id" and "${id}" give the value of id, inserted as it is, and KeyError
\* when v has none; any other "$" raises ValueError.
RECURSIVE substitute(_, _)
substitute(t, v) ==
  IF t = <<>> THEN [exc |-> NoExc, out |-> <<>>]
  ELSE IF Head(t) # "$" THEN Then(<<Head(t)>>, substitute(Tail(t), v))
  ELSE LET r == Tail(t)
       IN IF r # <<>> /\ Head(r) = "$" THEN Then(<<"$">>, substitute(Tail(r), v))
          ELSE IF Ident(r) # <<>>
          THEN IF Ident(r) \in DOMAIN v
               THEN Then(v[Ident(r)], substitute(Drop(r, Len(Ident(r))), v))
               ELSE [exc |-> Exc("KeyError", <<"'id'">>), out |-> <<>>]
          ELSE IF Braced(r) # <<>>
          THEN IF Braced(r) \in DOMAIN v
               THEN Then(v[Braced(r)], substitute(Drop(r, Len(Braced(r)) + 2), v))
               ELSE [exc |-> Exc("KeyError", <<"'id'">>), out |-> <<>>]
          ELSE [exc |-> Exc("ValueError", <<"Invalid placeholder in string">>), out |-> <<>>]

\* lecture_creation_user_prompt, shortened to its placeholders.
lecture_creation_user_prompt ==
  <<"$", "{", "t", "o", "p", "i", "c", "}", " ", "$", "{", "n", "a", "m", "e", "}", " ", "$", "{", "a", "u", "d", "i", "e", "n", "c", "e", "_", "l", "e", "v", "e", "l", "}", " ", "$", "{", "n", "a", "m", "e", "}">>

\* The keyword arguments lecture_creation passes to substitute.
CreationValues(st) ==
  (<<"n", "a", "m", "e">> :> st.name[1]) @@ (<<"t", "o", "p", "i", "c">> :> st.topic[1])
  @@ (<<"a", "u", "d", "i", "e", "n", "c", "e", "_", "l", "e", "v", "e", "l">> :> AudienceLevel[st.audience_level[1]])

\* The user message of lecture_creation.
CreationPrompt(st) == substitute(lecture_creation_user_prompt, CreationValues(st))

\* ------------------------------------------------------ test_flow: HelloFlow

\* A str value built by an f-string: f"{fmt}{arg}".
Text(fmt, arg) == [fmt |-> fmt, arg |-> arg]

\* What a step returns: self.state (the state object), or an error message.
RetState == [t |-> "state", s |-> Text("", "")]
RetStr(x) == [t |-> "str", s |-> x]

\* The state of a new HelloFlow: every field of UserInput defaults to None,
\* and no extra field is set.
NewState ==
  [ name |-> None, audience_level |-> None, topic |-> None,
    greeting_message |-> None, important_points |-> None, lecture_content |-> None,
    evaluator_score_card |-> None, greeting |-> None, mail_drafter_crew_result |-> None ]

\* A variant of StepExcept that stores the message in the field of the
\* step's result, greeting_message.
StepExceptIntoResultField(st, fl, e) ==
  [ state |-> [st EXCEPT !.greeting_message = Some(Text("Error calling LLM: ", Str(e)))],
    files |-> fl,
    ret |-> RetStr(Text("Error calling LLM: ", Str(e))) ]

\* A variant of StepExcept that replaces the state by a new one that holds
\* the message only.
StepExceptNewState(st, fl, e) ==
  [ state |-> [NewState EXCEPT !.greeting = Some(Text("Error calling LLM: ", Str(e)))],
    files |-> fl,
    ret |-> RetStr(Text("Error calling LLM: ", Str(e))) ]

\* A variant of StepExcept that returns the state object after a failure.
StepExceptReturnsState(st, fl, e) ==
  [ state |-> [st EXCEPT !.greeting = Some(Text("Error calling LLM: ", Str(e)))],
    files |-> fl,
    ret |-> RetState ]

\* The except clause of every step: the message is stored in the state's
\* extra field "greeting" and returned.
StepExcept(st, fl, e) ==
  [ state |-> [st EXCEPT !.greeting = Some(Text("Error calling LLM: ", Str(e)))],
    files |-> fl,
    ret |-> RetStr(Text("Error calling LLM: ", Str(e))) ]

\* The first exception of the try block of lecture_creation (NoExc: none):
\* the LLM call, json.loads, GeneratedResponse(**...), then the file write.
CreationExc(llm, fs) ==
  IF llm.exc # NoExc THEN llm.exc
  ELSE IF json_loads(llm.text).exc # NoExc THEN json_loads(llm.text).exc
  ELSE IF GeneratedResponse(json_loads(llm.text).val).exc # NoExc
  THEN GeneratedResponse(json_loads(llm.text).val).exc
  ELSE fs.exc

\* A variant of lecture_creation that saves the decoded JSON before it
\* validates it against GeneratedResponse.
lecture_creation_writes_first(st, fl, llm, fs) ==
  IF CreationPrompt(st).exc # NoExc THEN StepExcept(st, fl, CreationPrompt(st).exc)
  ELSE IF CreationExc(llm, fs) = NoExc
  THEN LET parsed == GeneratedResponse(json_loads(llm.text).val).val[1]
       IN [ state |-> [st EXCEPT !.greeting_message = Some(parsed.greeting_message),
                                 !.important_points = Some(parsed.important_points),
                                 !.lecture_content = Some(parsed.lecture_content)],
            files |-> [fl EXCEPT !.guide_outline = json_loads(llm.text).val],
            ret |-> RetState ]
  ELSE StepExcept(st,
                  IF llm.exc = NoExc /\ json_loads(llm.text).exc = NoExc
                  THEN [fl EXCEPT !.guide_outline = WriteFile(@, json_loads(llm.text).val, fs)]
                  ELSE fl,
                  CreationExc(llm, fs))

\* A variant of lecture_creation that stores the parsed fields in the state
\* before it writes the file.
lecture_creation_assigns_first(st, fl, llm, fs) ==
  IF CreationPrompt(st).exc # NoExc THEN StepExcept(st, fl, CreationPrompt(st).exc)
  ELSE IF CreationExc(llm, fs) = NoExc \/ CreationExc(llm, fs) = fs.exc
  THEN LET parsed == GeneratedResponse(json_loads(llm.text).val).val[1]
           assigned == [st EXCEPT !.greeting_message = Some(parsed.greeting_message),
                                  !.important_points = Some(parsed.important_points),
                                  !.lecture_content = Some(parsed.lecture_content)]
       IN IF fs.exc = NoExc
          THEN [ state |-> assigned,
                 files |-> [fl EXCEPT !.guide_outline = json_loads(llm.text).val],
                 ret |-> RetState ]
          ELSE StepExcept(assigned,
                          [fl EXCEPT !.guide_outline = WriteFile(@, json_loads(llm.text).val, fs)],
                          fs.exc)
  ELSE StepExcept(st, fl, CreationExc(llm, fs))

\* HelloFlow.lecture_creation, for the outcome llm of the LLM call and fs of
\* the file system: the state, the files and the return value after it.
lecture_creation(st, fl, llm, fs) ==
  IF CreationPrompt(st).exc # NoExc THEN StepExcept(st, fl, CreationPrompt(st).exc)
  ELSE IF CreationExc(llm, fs) = NoExc
  THEN LET parsed == GeneratedResponse(json_loads(llm.text).val).val[1]
       IN [ state |-> [st EXCEPT !.greeting_message = Some(parsed.greeting_message),
                                 !.important_points = Some(parsed.important_points),
                                 !.lecture_content = Some(parsed.lecture_content)],
            files |-> [fl EXCEPT !.guide_outline = json_loads(llm.text).val],
            ret |-> RetState ]
  ELSE StepExcept(st,
                  IF CreationExc(llm, fs) = fs.exc
                  THEN [fl EXCEPT !.guide_outline = WriteFile(@, json_loads(llm.text).val, fs)]
                  ELSE fl,
                  CreationExc(llm, fs))

\* Reading attribute a of the value a listener was passed: a str has none.
NoAttribute(a) == Exc("AttributeError", <<"'str' object has no attribute">>)

EvaluatorExc(input, llm, fs) ==
  IF input.t = "str" THEN NoAttribute("important_points")
  ELSE IF llm.exc # NoExc THEN llm.exc
  ELSE IF json_loads(llm.text).exc # NoExc THEN json_loads(llm.text).exc
  ELSE IF EvaluatorResponse(json_loads(llm.text).val).exc # NoExc
  THEN EvaluatorResponse(json_loads(llm.text).val).exc
  ELSE fs.exc

\* A variant of lecture_evaluator that saves the decoded response before it
\* validates it.
lecture_evaluator_writes_first(st, fl, input, llm, fs) ==
  IF EvaluatorExc(input, llm, fs) = NoExc
  THEN LET parsed == EvaluatorResponse(json_loads(llm.text).val).val[1]
       IN [ state |-> [st EXCEPT !.evaluator_score_card = parsed.score_card],
            files |-> [fl EXCEPT !.evaluation_result = json_loads(llm.text).val],
            ret |-> RetState ]
  ELSE StepExcept(st,
                  IF input.t # "str" /\ llm.exc = NoExc /\ json_loads(llm.text).exc = NoExc
                  THEN [fl EXCEPT !.evaluation_result = WriteFile(@, json_loads(llm.text).val, fs)]
                  ELSE fl,
                  EvaluatorExc(input, llm, fs))

\* HelloFlow.lecture_evaluator(state = input).
lecture_evaluator(st, fl, input, llm, fs) ==
  IF EvaluatorExc(input, llm, fs) = NoExc
  THEN LET parsed == EvaluatorResponse(json_loads(llm.text).val).val[1]
       IN [ state |-> [st EXCEPT !.evaluator_score_card = parsed.score_card],
            files |-> [fl EXCEPT !.evaluation_result = json_loads(llm.text).val],
            ret |-> RetState ]
  ELSE StepExcept(st,
                  IF input.t # "str" /\ EvaluatorExc(input, llm, fs) = fs.exc
                  THEN [fl EXCEPT !.evaluation_result = WriteFile(@, json_loads(llm.text).val, fs)]
                  ELSE fl,
                  EvaluatorExc(input, llm, fs))

\* The value the send_email step's crew run ends with: an exception, or the
\* raw text of the crew's result.
CrewOutcomes ==
  { [exc |-> Exc("RateLimitError", <<"rate limit">>), raw |-> ""],
    [exc |-> NoExc, raw |-> "The email was sent"] }

\* What HelloFlow.send_email prints before it starts the crew: the second
\* print reads state.topic, which a str does not have.
SendEmailPrints(input) ==
  IF input.t = "str" THEN <<P("Inside Send Email Function", "")>>
  ELSE <<P("Inside Send Email Function", ""),
         P("STATE CONTAINING - ", "{state.topic} |||||| {state.lecture_content}")>>

\* HelloFlow.send_email(state = input) once the crew run has ended with crew.
HelloFlow_send_email(st, fl, input, crew) ==
  IF input.t = "str" THEN StepExcept(st, fl, NoAttribute("topic"))
  ELSE IF crew.exc # NoExc THEN StepExcept(st, fl, crew.exc)
  ELSE [ state |-> [st EXCEPT !.mail_drafter_crew_result = Some(crew.raw)],
         files |-> fl,
         ret |-> RetState ]

\* A variant of SendMail_run without the try: the exception leaves the tool.
SendMail_run_unguarded(o) ==
  IF o.exc = NoExc THEN [status |-> "success"] ELSE [raised |-> Str(o.exc)]

\* SendMail._run(subject, html_content) for the outcome o of its use of the
\* SendGrid client: every Exception is caught and reported in the dict.
SendMail_run(o) ==
  IF o.exc = NoExc THEN [status |-> "success"]
  ELSE IF IsInstance(o.exc.type, "Exception")
  THEN [status |-> "failed", error |-> Str(o.exc)]
  ELSE [raised |-> Str(o.exc)]

\* ------------------------------------------------------- test_flow: kickoff

\* The number of inputs kickoff has rejected so far.
Rejected(l) == Cardinality({i \in DOMAIN l : l[i].ev = "input" /\ l[i].res.status = "rejected"})

Input(prompt, raw, status) ==
  [ev |-> "input", agent |-> "stdin", name |-> prompt, arg |-> <<raw>>,
   res |-> [status |-> status]]

\* A variant of ReadText that takes the text as typed.
ReadTextAsTyped(raw) == raw

\* input(...).strip() of the name and topic prompts; a falsy (empty) value is
\* asked for again.
ReadText(raw) == Strip(raw)
\* A variant of ReadAudience that takes the text as typed.
ReadAudienceAsTyped(raw) == raw

\* input(...).strip().lower() of the audience prompt.
ReadAudience(raw) == Lower(Strip(raw))

\* The log entry of a step of the flow: the kind of value it was invoked with
\* ("none" for the @start step) and the exception its try block met.
Step(name, input, e) ==
  [ev |-> "step", agent |-> "HelloFlow", name |-> name, arg |-> <<input>>,
   res |-> [status |-> IF e = NoExc THEN "returned" ELSE "raised", exc |-> e.type]]

\* The name prompt and its re-prompt loop.
kickoff_name ==
  /\ script = "test_flow" /\ pc = "name"
  /\ \E raw \in NameInputs :
       IF ReadText(raw) = <<>>
       THEN /\ Rejected(log) < MaxRetries
            /\ log' = Append(log, Input("name", raw, "rejected"))
            /\ UNCHANGED <<pc, local>>
       ELSE /\ log' = Append(log, Input("name", raw, "accepted"))
            /\ local' = [local EXCEPT !.input_name = Some(ReadText(raw))]
            /\ pc' = "audience"
  /\ UNCHANGED <<script, env, exc, printed, fan, outbox, run, state, files, ret>>

\* The audience prompt: AudienceLevel(audience_input), and on ValueError the
\* message and the prompt again.
kickoff_audience ==
  /\ script = "test_flow" /\ pc = "audience"
  /\ \E raw \in AudienceInputs :
       IF AudienceLevelOf(ReadAudience(raw)) = {}
       THEN /\ Rejected(log) < MaxRetries
            /\ log' = Append(log, Input("audience", raw, "rejected"))
            /\ printed' = Append(printed,
                 P("Invalid input! Please enter 'beginner', 'intermediate', or 'advanced'.", ""))
            /\ UNCHANGED <<pc, local>>
       ELSE /\ log' = Append(log, Input("audience", raw, "accepted"))
            /\ local' = [local EXCEPT !.audience_level =
                           Some(CHOOSE m \in AudienceLevelOf(ReadAudience(raw)) : TRUE)]
            /\ pc' = "topic"
            /\ UNCHANGED printed
  /\ UNCHANGED <<script, env, exc, fan, outbox, run, state, files, ret>>

\* The topic prompt and its re-prompt loop.
kickoff_topic ==
  /\ script = "test_flow" /\ pc = "topic"
  /\ \E raw \in TopicInputs :
       IF ReadText(raw) = <<>>
       THEN /\ Rejected(log) < MaxRetries
            /\ log' = Append(log, Input("topic", raw, "rejected"))
            /\ UNCHANGED <<pc, local>>
       ELSE /\ log' = Append(log, Input("topic", raw, "accepted"))
            /\ local' = [local EXCEPT !.topic_name = Some(ReadText(raw))]
            /\ pc' = "flow"
  /\ UNCHANGED <<script, env, exc, printed, fan, outbox, run, state, files, ret>>

\* input() raises EOFError when stdin is closed: kickoff's handler takes it.
kickoff_input_fails ==
  /\ script = "test_flow" /\ pc \in {"name", "audience", "topic"}
  /\ exc' = Exc("EOFError", <<"EOF when reading a line">>)
  /\ pc' = "kickoff_except"
  /\ UNCHANGED <<script, env, printed, log, fan, outbox, run, flow>>

\* UserInput(...), HelloFlow(), the three assignments to hello_flow.state, and
\* hello_flow.kickoff(), which invokes the @start step.
kickoff_flow ==
  /\ script = "test_flow" /\ pc = "flow"
  /\ state' = [NewState EXCEPT !.name = local.input_name,
                               !.audience_level = local.audience_level,
                               !.topic = local.topic_name]
  /\ pc' = "lecture_creation"
  /\ UNCHANGED <<script, env, exc, printed, log, fan, outbox, run, local, files, ret>>

\* The @start step runs.
HelloFlow_lecture_creation ==
  /\ script = "test_flow" /\ pc = "lecture_creation"
  /\ \E llm \in LlmOutcomes(env, CreationTexts), fs \in FsOutcomes :
       LET r == lecture_creation(state, files, llm, fs)
       IN /\ state' = r.state /\ files' = r.files /\ ret' = r.ret
          /\ log' = log \o (IF CreationPrompt(state).exc # NoExc THEN <<>>
                              ELSE << [Call("llm", "HelloFlow", "lecture_creation")
                                         EXCEPT !.arg = <<CreationPrompt(state).out>>] >>)
                          \o << Step("lecture_creation", "none",
                                      IF CreationPrompt(state).exc # NoExc
                                      THEN CreationPrompt(state).exc
                                      ELSE CreationExc(llm, fs)) >>
  /\ pc' = "lecture_evaluator"
  /\ UNCHANGED <<script, env, exc, printed, fan, outbox, run, local>>

\* A variant of HelloFlow_lecture_evaluator that is invoked with the state
\* object whatever lecture_creation returned.
HelloFlow_lecture_evaluator_gets_state ==
  /\ script = "test_flow" /\ pc = "lecture_evaluator"
  /\ \E llm \in LlmOutcomes(env, EvaluatorTexts), fs \in FsOutcomes :
       LET r == lecture_evaluator(state, files, RetState, llm, fs)
       IN /\ state' = r.state /\ files' = r.files /\ ret' = r.ret
          /\ log' = log \o <<Call("llm", "HelloFlow", "lecture_evaluator")>>
                          \o << Step("lecture_evaluator", "state", EvaluatorExc(RetState, llm, fs)) >>
  /\ pc' = "send_email"
  /\ UNCHANGED <<script, env, exc, printed, fan, outbox, run, local>>

\* @listen(lecture_creation): the step is invoked with what lecture_creation
\* returned.
HelloFlow_lecture_evaluator ==
  /\ script = "test_flow" /\ pc = "lecture_evaluator"
  /\ \E llm \in LlmOutcomes(env, EvaluatorTexts), fs \in FsOutcomes :
       LET r == lecture_evaluator(state, files, ret, llm, fs)
       IN /\ state' = r.state /\ files' = r.files /\ ret' = r.ret
          /\ log' = log \o (IF ret.t = "str" THEN <<>>
                              ELSE <<Call("llm", "HelloFlow", "lecture_evaluator")>>)
                          \o << Step("lecture_evaluator", ret.t, EvaluatorExc(ret, llm, fs)) >>
  /\ pc' = "send_email"
  /\ UNCHANGED <<script, env, exc, printed, fan, outbox, run, local>>

\* A variant of HelloFlow_send_email_begin that reads no field of the value
\* it was passed before it starts the crew.
HelloFlow_send_email_begin_reads_nothing ==
  /\ script = "test_flow" /\ pc = "send_email"
  /\ printed' = Append(printed, P("Inside Send Email Function", ""))
  /\ log' = Append(log, Step("send_email", ret.t, NoExc))
  /\ agent' = "mail_sender"
  /\ turns' = 0
  /\ pc' = "crew"
  /\ UNCHANGED <<script, env, exc, fan, outbox, guard, local, state, files, ret>>

\* @listen(lecture_evaluator): send_email is invoked with what
\* lecture_evaluator returned; with the state object it starts the crew.
HelloFlow_send_email_begin ==
  /\ script = "test_flow" /\ pc = "send_email"
  /\ printed' = printed \o SendEmailPrints(ret)
  /\ log' = Append(log, Step("send_email", ret.t,
                              IF ret.t = "str" THEN NoAttribute("topic") ELSE NoExc))
  /\ IF ret.t = "str"
     THEN LET r == HelloFlow_send_email(state, files, ret, CHOOSE c \in CrewOutcomes : TRUE)
          IN /\ state' = r.state /\ files' = r.files /\ ret' = r.ret
             /\ pc' = "final"
             /\ UNCHANGED <<agent, turns>>
     ELSE /\ agent' = "mail_sender"
          /\ turns' = 0
          /\ pc' = "crew"
          /\ UNCHANGED <<state, files, ret>>
  /\ UNCHANGED <<script, env, exc, fan, outbox, guard, local>>

\* The crew's mail_sender agent calls its SendMail tool.
CrewToolCall ==
  /\ script = "test_flow" /\ pc = "crew"
  /\ turns < MaxTurns
  /\ turns' = turns + 1
  /\ \E subject \in Subjects, body \in Bodies :
       \E o \in MailOutcomes(env, body) :
         /\ outbox' = Submit(outbox, subject, body, "text/html", env, o)
         /\ log' = Append(log, ToolCall(agent, "SendMail", <<subject, body>>, SendMail_run(o)))
  /\ UNCHANGED <<script, env, pc, exc, printed, fan, agent, guard, flow>>

\* MailDrafter().crew().kickoff(...) ends, and with it the send_email step.
HelloFlow_send_email_resume ==
  /\ script = "test_flow" /\ pc = "crew"
  /\ \E crew \in CrewOutcomes :
       LET r == HelloFlow_send_email(state, files, ret, crew)
       IN /\ state' = r.state /\ files' = r.files /\ ret' = r.ret
          /\ printed' = IF crew.exc = NoExc
                        THEN Append(printed, P("Result after running crew - 'Mail Drafter' - ", crew.raw))
                        ELSE printed
  /\ pc' = "final"
  /\ UNCHANGED <<script, env, exc, log, fan, outbox, run, local>>

\* hello_flow.kickoff() returns the last step's value, which kickoff prints.
kickoff_final ==
  /\ script = "test_flow" /\ pc = "final"
  /\ printed' = Append(printed,
                  IF ret.t = "str"
                  THEN [fmt |-> "FINAL OUTPUT -> ", arg |-> ret.s.fmt, arg2 |-> ret.s.arg]
                  ELSE P("FINAL OUTPUT -> ", "{self.state}"))
  /\ pc' = "exited"
  /\ UNCHANGED <<script, env, exc, log, fan, outbox, run, flow>>

\* A variant of kickoff_except that prints the message and raises the
\* exception again.
kickoff_except_reraises ==
  /\ script = "test_flow" /\ pc = "kickoff_except"
  /\ IsInstance(exc.type, "Exception")
  /\ printed' = Append(printed, P("An unexpected error occurred: ", Str(exc)))
  /\ exc' = exc
  /\ pc' = "exited"
  /\ UNCHANGED <<script, env, log, fan, outbox, run, flow>>

\* kickoff's "except Exception as e".
kickoff_except ==
  /\ script = "test_flow" /\ pc = "kickoff_except"
  /\ IsInstance(exc.type, "Exception")
  /\ printed' = Append(printed, P("An unexpected error occurred: ", Str(exc)))
  /\ exc' = NoExc
  /\ pc' = "exited"
  /\ UNCHANGED <<script, env, log, fan, outbox, run, flow>>

Init ==
  /\ script \in Scripts
  /\ env \in Envs
  /\ pc = IF script = "lab4_part1" THEN "import"
          ELSE IF script = "test_flow" THEN "name" ELSE "main"
  /\ exc = NoExc
  /\ printed = <<>>
  /\ log = <<>>
  /\ plan = <<>>
  /\ tasks = <<>>
  /\ order = <<>>
  /\ results = <<>>
  /\ report = "None"
  /\ outbox = <<>>
  /\ agent = "none"
  /\ turns = 0
  /\ guard = "none"
  /\ local = [input_name |-> None, audience_level |-> None, topic_name |-> None]
  /\ state = NewState
  /\ files \in IF script = "test_flow"
               THEN { [guide_outline |-> f, evaluation_result |-> f] : f \in {Absent, Stale} }
               ELSE {[guide_outline |-> Absent, evaluation_result |-> Absent]}
  /\ ret = RetState

Next ==
  \/ \E i \in 1..Len(tasks) : TaskFinishes(i)
  \/ MainExcept
  \/ LoopClose
  \/ Lab4_KeyCheck
  \/ Lab4_main
  \/ plan_searches
  \/ plan_searches_resume
  \/ perform_searches
  \/ perform_searches_resume
  \/ write_report
  \/ write_report_resume
  \/ AgentToolCall
  \/ AgentHandoff
  \/ Lab2p3_main
  \/ Manager_resume
  \/ Lab3_main
  \/ GuardrailEnds
  \/ Lab4_send_email
  \/ Lab4_send_email_resume
  \/ Lab4_hooray
  \/ Single_main
  \/ Lab1_resume
  \/ StreamEvents
  \/ kickoff_name
  \/ kickoff_audience
  \/ kickoff_topic
  \/ kickoff_input_fails
  \/ kickoff_flow
  \/ HelloFlow_lecture_creation
  \/ HelloFlow_lecture_evaluator
  \/ HelloFlow_send_email_begin
  \/ CrewToolCall
  \/ HelloFlow_send_email_resume
  \/ kickoff_final
  \/ kickoff_except
  \/ Lab2p2_main
  \/ Lab2p2_gather_resume

Spec == Init /\ [][Next]_vars

\* ------------------------------------- string.Template on its own inputs

\* The templates and keyword arguments substitute is applied to: every text
\* of at most MaxTemplateLen characters, and every mapping of some of the
\* keys to a value (the second value holds a placeholder itself).
TemplateChars == {"$", "{", "}", "a"}
MaxTemplateLen == 4
Templates == UNION { [1..k -> TemplateChars] : k \in 0..MaxTemplateLen }
TemplateKeys == { <<"a">>, <<"a", "a">> }
TemplateValues == { <<"x">>, <<"$", "a">> }
ValueRecords == UNION { [K -> TemplateValues] : K \in SUBSET TemplateKeys }

InitTemplate ==
  /\ script = "string.Template"
  /\ env = [OPENAI_API_KEY |-> TRUE, SENDGRID_API_KEY |-> TRUE]
  /\ pc = "substitute"
  /\ exc = NoExc
  /\ printed = <<>>
  /\ log = <<>>
  /\ plan = <<>>
  /\ tasks = <<>>
  /\ order = <<>>
  /\ results = <<>>
  /\ report = "None"
  /\ outbox = <<>>
  /\ agent = "none"
  /\ turns = 0
  /\ guard = "none"
  /\ local \in [template : Templates, values : ValueRecords]
  /\ state = NewState
  /\ files = [guide_outline |-> Absent, evaluation_result |-> Absent]
  /\ ret = [exc |-> NoExc, out |-> <<>>]

\* Template(local.template).substitute(**local.values)
Template_substitute ==
  /\ pc = "substitute"
  /\ ret' = substitute(local.template, local.values)
  /\ pc' = "substituted"
  /\ UNCHANGED <<script, env, exc, printed, log, fan, outbox, run, local, state, files>>

NextTemplate == Template_substitute

SpecTemplate == InitTemplate /\ [][NextTemplate]_vars

\* ------------------------------------ GeneratedResponse to JSON and back

\* The GeneratedResponse records the round trip is applied to.
GeneratedRecords ==
  [ greeting_message : {"", "Hello", "Hi"},
    important_points : {<<>>, <<"p1">>, <<"p1", "p2">>, <<"p2", "p1">>},
    lecture_content : {"", "Lecture", "Short", "{}"} ]

\* The JSON object of a GeneratedResponse record: one key per field.
AsJson(r) ==
  JDict([greeting_message |-> JStr(r.greeting_message),
         important_points |-> JList([i \in 1..Len(r.important_points) |->
                                       JStr(r.important_points[i])]),
         lecture_content |-> JStr(r.lecture_content)])

\* json.dump(v, f, indent = 2): the JSON text of v.
json_dump(v) == JsonText(v)

InitJson ==
  /\ script = "json"
  /\ env = [OPENAI_API_KEY |-> TRUE, SENDGRID_API_KEY |-> TRUE]
  /\ pc = "encode"
  /\ exc = NoExc
  /\ printed = <<>>
  /\ log = <<>>
  /\ plan = <<>>
  /\ tasks = <<>>
  /\ order = <<>>
  /\ results = <<>>
  /\ report = "None"
  /\ outbox = <<>>
  /\ agent = "none"
  /\ turns = 0
  /\ guard = "none"
  /\ local \in [record : GeneratedRecords, once : {None}]
  /\ state = NewState
  /\ files = [guide_outline |-> Absent, evaluation_result |-> Absent]
  /\ ret = [exc |-> NoExc, val |-> Some(local.record)]

\* The record at hand is encoded: its JSON text is written to the file.
Json_encode ==
  /\ pc = "encode"
  /\ ret.exc = NoExc
  /\ files' = [files EXCEPT !.guide_outline = json_dump(AsJson(ret.val[1]))]
  /\ pc' = "decode"
  /\ UNCHANGED <<script, env, exc, printed, log, fan, outbox, run, local, state, ret>>

\* The text is decoded: GeneratedResponse(**json.loads(text)). The round
\* trip is made twice.
Json_decode ==
  /\ pc = "decode"
  /\ ret' = IF json_loads(files.guide_outline).exc # NoExc
            THEN [exc |-> json_loads(files.guide_outline).exc, val |-> None]
            ELSE GeneratedResponse(json_loads(files.guide_outline).val)
  /\ turns' = turns + 1
  /\ local' = IF turns = 0 THEN [local EXCEPT !.once = ret'.val] ELSE local
  /\ pc' = IF turns = 0 THEN "encode" ELSE "decoded"
  /\ UNCHANGED <<script, env, exc, printed, log, fan, outbox, agent, guard, state, files>>

NextJson == Json_encode \/ Json_decode

SpecJson == InitJson /\ [][NextJson]_vars

\* ------------------------------------------------------------- properties

Last(q) == q[Len(q)]
Printed(m) == \E i \in DOMAIN printed : printed[i].fmt = m
IsStep(i, name) == log[i].ev = "step" /\ log[i].name = name
Raised(i) == log[i].res.status = "raised"

\* C1: in HelloFlow a failed lecture_creation or lecture_evaluator returns the
\* error-message string ("Error calling LLM: ..."), the flow goes on, and the
\* next listening step is invoked with that string instead of the state.
C1_FailedStepFeedsNextStep ==
  /\ \A i \in DOMAIN log :
       (IsStep(i, "lecture_creation") /\ Raised(i)) =>
          \/ /\ pc = "lecture_evaluator"
             /\ ret.t = "str" /\ ret.s.fmt = "Error calling LLM: "
             /\ state.greeting = Some(ret.s)
          \/ \E j \in DOMAIN log :
               j > i /\ IsStep(j, "lecture_evaluator") /\ log[j].arg = <<"str">>
  /\ \A i \in DOMAIN log :
       (IsStep(i, "lecture_evaluator") /\ Raised(i)) =>
          \/ /\ pc = "send_email"
             /\ ret.t = "str" /\ ret.s.fmt = "Error calling LLM: "
             /\ state.greeting = Some(ret.s)
          \/ \E j \in DOMAIN log :
               j > i /\ IsStep(j, "send_email") /\ log[j].arg = <<"str">>

\* lecture_creation failed, and lecture_evaluator and send_email were both
\* invoked with a string.
C1_Witness ==
  /\ \E i \in DOMAIN log : IsStep(i, "lecture_creation") /\ Raised(i)
  /\ \E j \in DOMAIN log : IsStep(j, "lecture_evaluator") /\ log[j].arg = <<"str">>
  /\ \E k \in DOMAIN log : IsStep(k, "send_email") /\ log[k].arg = <<"str">>

\* C2 (as amended): SendMail._run never raises. When the provider accepted the
\* email it returns exactly {"status": "success"}; otherwise it returns exactly
\* {"status": "failed", "error": str(e)}, where str(e) is empty for an
\* exception raised without arguments (a body that looks like an API key) and
\* the provider's message otherwise.
C2_SendMailReportsStatus ==
  [][ (pc = "crew" /\ Len(log') > Len(log)) =>
        LET r == Last(log').res
            body == Last(log').arg[2]
        IN IF Len(outbox') > Len(outbox) /\ Last(outbox').accepted
           THEN r = [status |-> "success"]
           ELSE /\ DOMAIN r = {"status", "error"}
                /\ r.status = "failed"
                /\ (r.error = "") <=> (body \in KeyLikeBodies) ]_vars

IsSendMail(i) == log[i].ev = "tool" /\ log[i].name = "SendMail"

\* SendMail has returned success once and failed with an empty error once.
C2_Witness ==
  /\ \E i \in DOMAIN log : IsSendMail(i) /\ log[i].res = [status |-> "success"]
  /\ \E i \in DOMAIN log : IsSendMail(i) /\ log[i].res = [status |-> "failed", error |-> ""]

\* C2 as stated: a failed SendMail._run reports a non-empty error string.
C2_ErrorNeverEmpty ==
  \A i \in DOMAIN log :
    (IsSendMail(i) /\ log[i].res # [status |-> "success"]) =>
       /\ DOMAIN log[i].res = {"status", "error"}
       /\ log[i].res.status = "failed"
       /\ log[i].res.error # ""

\* C3: when the gather of a fan-out returns (the three draft calls, the
\* searches of the plan), the list has one result per launched call and its
\* i-th element is the result of the i-th launched call, whatever the order of
\* completion.
C3_ResultsInLaunchOrder ==
  [][ (pc = "gather" /\ pc' \notin {"gather", "except"}) =>
        /\ Len(results') = Len(tasks)
        /\ Len(tasks) = IF script = "lab2_part2" THEN NumDraftAgents ELSE Len(plan)
        /\ \A i \in 1..Len(tasks) :
             /\ results'[i] = tasks[i].result
             /\ results'[i].of = i
        /\ script = "lab2_part2" => Last(log').arg = results' ]_vars

\* The results were collected although the first launched call was not the
\* first to complete.
C3_Witness ==
  /\ pc \in {"stream", "write_report"}
  /\ Len(results) >= 2
  /\ order[1] # 1
  /\ \A i \in 1..Len(results) : results[i].of = i

\* C4: once a call of a fan-out has failed the gather fails as a whole: no
\* result list is produced, no later step (picker, writer, email) runs, and
\* the calls still running are not cancelled before main has returned (only
\* the closing event loop cancels them).
C4_OneFailureFailsGather ==
  (\E i \in 1..Len(tasks) : tasks[i].status = "failed") =>
     /\ pc \in {"gather", "except", "exit", "exited"}
     /\ results = <<>>
     /\ report = "None"
     /\ outbox = <<>>
     /\ \A j \in DOMAIN log :
          log[j].agent \notin {"Sales Picker", "Writer Agent", "Email Agent"}
     /\ ~Printed("Finished searching")
     /\ pc # "exited" => \A i \in 1..Len(tasks) : tasks[i].status # "cancelled"

\* One call failed while another had given its result and a third was still
\* running; main has returned and the loop has cancelled the third.
C4_Witness ==
  /\ pc = "exited"
  /\ \E i \in 1..Len(tasks) : tasks[i].status = "failed"
  /\ \E i \in 1..Len(tasks) : tasks[i].status = "done"
  /\ \E i \in 1..Len(tasks) : tasks[i].status = "cancelled"

\* A step of HelloFlow is taken and its try block raises.
FlowStepRaised ==
  pc \in {"lecture_creation", "lecture_evaluator"} /\ Last(log').res.status = "raised"

C6_MissingKeyStopsRun ==
  (~env.OPENAI_API_KEY \/ ~env.SENDGRID_API_KEY) =>
     /\ \A i \in DOMAIN log : log[i].ev \notin {"run", "run_streamed", "llm", "tool", "handoff"}
     /\ outbox = <<>>

DecodeErrors == {"JSONDecodeError", "TypeError", "ValidationError"}

\* A step of HelloFlow is taken and decoding the LLM's text raises.
DecodingRaised ==
  pc \in {"lecture_creation", "lecture_evaluator"} /\ Last(log').res.exc \in DecodeErrors

\* The fields a step assigns from the decoded response.
ResultFields(st) ==
  <<st.greeting_message, st.important_points, st.lecture_content, st.evaluator_score_card>>

StepRank == [plan_searches |-> 1, search |-> 2, write_report |-> 3, send_email |-> 4]
Runs == {i \in DOMAIN log : log[i].ev = "run"}
HandlerMessages == {"OpenAI API Error : ", "An unexpected error occurred : "}
Handled == {i \in DOMAIN printed : printed[i].fmt \in HandlerMessages}

\* C8: main of the research script runs plan_searches, perform_searches,
\* write_report and send_email in this order, each step starting only after
\* the previous one has returned; a failure skips the later steps and is
\* handled once, by main's try/except; "Hooray!" is printed only when all
\* four steps have returned.
C8_StepsInOrder ==
  script = "lab4_part1" =>
    /\ \A i, j \in Runs : i < j => StepRank[log[i].name] <= StepRank[log[j].name]
    /\ Printed("Searching...") => Printed("Finished planning searches")
    /\ Printed("Writing report...") => Printed("Finished searching")
    /\ Printed("Writing email...") => Printed("Finished writing report")
    /\ (\E i \in Runs : log[i].name = "search") => Printed("Finished planning searches")
    /\ (\E i \in Runs : log[i].name = "write_report") => Printed("Finished searching")
    /\ (\E i \in Runs : log[i].name = "send_email") => Printed("Finished writing report")
    /\ Printed("Hooray!") =>
         /\ Printed("Finished planning searches") /\ Printed("Finished searching")
         /\ Printed("Finished writing report") /\ Printed("Email sent")
         /\ Handled = {}
    /\ Handled # {} =>
         /\ Cardinality(Handled) = 1
         /\ pc \in {"exit", "exited"}
         /\ ~Printed("Email sent")
    /\ pc = "except" => ~Printed("Email sent") /\ Handled = {}

\* All four steps returned and "Hooray!" was printed.
C8_Witness ==
  /\ script = "lab4_part1"
  /\ Printed("Hooray!")
  /\ Len(results) = MaxSearches
  /\ Cardinality(Runs) = MaxSearches + 3

\* C9 as stated: the name guardrail runs before the Sales Manager executes,
\* and when it trips no draft is generated, no handoff happens and no email
\* is sent.
C9_GuardrailBeforeManager ==
  (script = "lab3_part1" /\ guard \in {"pending", "tripped"}) =>
     /\ \A i \in DOMAIN log : log[i].ev \notin {"tool", "handoff"}
     /\ outbox = <<>>

AudienceValues == {AudienceLevel[m] : m \in DOMAIN AudienceLevel}
IsAudienceInput(i) == log[i].ev = "input" /\ log[i].name = "audience"

\* C10 (as amended): kickoff strips and lower-cases the audience input; it is
\* rejected (message printed, prompt repeated) exactly when the normalised
\* text is none of "beginner", "intermediate", "advanced", an accepted input
\* maps to the member whose value is the normalised text, and the flow's
\* audience_level is one of the three members when the flow starts.
C10_AudienceLevelValidated ==
  /\ \A i \in DOMAIN log :
       IsAudienceInput(i) =>
          (log[i].res.status = "accepted") <=> (Lower(Strip(log[i].arg[1])) \in AudienceValues)
  /\ \A i \in DOMAIN log :
       (IsAudienceInput(i) /\ log[i].res.status = "accepted") =>
          /\ local.audience_level # None
          /\ AudienceLevel[local.audience_level[1]] = Lower(Strip(log[i].arg[1]))
  /\ Cardinality({i \in DOMAIN log : IsAudienceInput(i) /\ log[i].res.status = "rejected"})
       = Cardinality({i \in DOMAIN printed : printed[i].fmt =
            "Invalid input! Please enter 'beginner', 'intermediate', or 'advanced'."})
  /\ (script = "test_flow"
      /\ pc \in {"lecture_creation", "lecture_evaluator", "send_email", "crew", "final"}) =>
       /\ state.audience_level # None
       /\ state.audience_level[1] \in DOMAIN AudienceLevel
       /\ state.audience_level = local.audience_level

\* "expert" was rejected, " Advanced " was accepted and the flow has started
\* with the member advanced.
C10_Witness ==
  /\ pc = "lecture_creation"
  /\ state.audience_level = Some("advanced")
  /\ \E i \in DOMAIN log : IsAudienceInput(i) /\ log[i].res.status = "rejected"
  /\ \E i \in DOMAIN log :
       /\ IsAudienceInput(i) /\ log[i].res.status = "accepted"
       /\ log[i].arg[1] \notin AudienceValues

\* C10 as stated: every accepted audience input is itself one of the three
\* values.
C10_AcceptedInputIsValue ==
  \A i \in DOMAIN log :
    (IsAudienceInput(i) /\ log[i].res.status = "accepted") => log[i].arg[1] \in AudienceValues

IsInput(i, prompt) == log[i].ev = "input" /\ log[i].name = prompt
Accepted(i) == log[i].res.status = "accepted"
PromptRank == [name |-> 1, audience |-> 2, topic |-> 3]
Inputs == {i \in DOMAIN log : log[i].ev = "input"}
FlowStarted ==
  script = "test_flow" /\ pc \in {"lecture_creation", "lecture_evaluator", "send_email", "crew", "final"}

\* C11: kickoff asks for the name, the audience level and the topic in this
\* order and repeats a prompt until its input is valid (non-empty after
\* trimming; a valid audience level); a prompt is not asked again once its
\* input was accepted, and HelloFlow is started only after all three were.
C11_PromptsUntilValid ==
  /\ \A i, j \in Inputs : i < j => PromptRank[log[i].name] <= PromptRank[log[j].name]
  /\ \A i \in Inputs :
       Accepted(i) =>
          /\ Strip(log[i].arg[1]) # <<>>
          /\ log[i].name = "audience" => Lower(Strip(log[i].arg[1])) \in AudienceValues
          /\ \A j \in Inputs : j > i => log[j].name # log[i].name
  /\ \A i \in Inputs :
       (~Accepted(i) /\ log[i].name \in {"name", "topic"}) => Strip(log[i].arg[1]) = <<>>
  /\ (script = "test_flow" /\ pc = "audience") =>
        \E i \in Inputs : IsInput(i, "name") /\ Accepted(i)
  /\ (script = "test_flow" /\ pc = "topic") =>
        \E i \in Inputs : IsInput(i, "audience") /\ Accepted(i)
  /\ (FlowStarted \/ (script = "test_flow" /\ pc = "flow")) =>
        \A p \in DOMAIN PromptRank : \E i \in Inputs : IsInput(i, p) /\ Accepted(i)
  /\ FlowStarted =>
        /\ state.name # None /\ state.name[1] # <<>> /\ Strip(state.name[1]) = state.name[1]
        /\ state.topic # None /\ state.topic[1] # <<>> /\ Strip(state.topic[1]) = state.topic[1]
        /\ state.audience_level # None
  /\ (\E i \in DOMAIN log : log[i].ev \in {"step", "llm"}) =>
        \A p \in DOMAIN PromptRank : \E i \in Inputs : IsInput(i, p) /\ Accepted(i)

\* A blank name and a blank topic were each asked for again, and the flow
\* has started with the trimmed name.
C11_Witness ==
  /\ FlowStarted
  /\ \E i \in Inputs : IsInput(i, "name") /\ ~Accepted(i)
  /\ \E i \in Inputs : IsInput(i, "topic") /\ ~Accepted(i)
  /\ state.name = Some(<<"A", "n", "n">>)

\* The text holds placeholder syntax: a "$" followed by an identifier or by
\* a braced identifier.
HasPlaceholder(t) ==
  \E i \in 1..Len(t) :
    t[i] = "$" /\ (Ident(Drop(t, i)) # <<>> \/ Braced(Drop(t, i)) # <<>>)
HasEscape(t) == \E i \in 1..(Len(t) - 1) : t[i] = "$" /\ t[i + 1] = "$"
HasDollar(t) == \E i \in 1..Len(t) : t[i] = "$"
\* The identifiers of the placeholders of a template without "$$".
Placeholders(t) ==
  { Ident(Drop(t, i)) : i \in {j \in 1..Len(t) : t[j] = "$"} }
  \cup { Braced(Drop(t, i)) : i \in {j \in 1..Len(t) : t[j] = "$"} }
Substituted == pc = "substituted"

\* C12 (as amended): substitution is one pass over the template. When it
\* returns a string, every placeholder of the template had a value; the
\* output holds no placeholder syntax provided no supplied value holds a
\* "$" and the template has no "$$" escape (values are inserted as they are
\* and "$$" becomes "$"). When a placeholder of a template without "$$" has
\* no value, substitution fails instead of returning a string.
C12_SubstituteReplacesOnce ==
  Substituted =>
    /\ (/\ ret.exc = NoExc
        /\ ~HasEscape(local.template)
        /\ \A k \in DOMAIN local.values : ~HasDollar(local.values[k]))
         => ~HasPlaceholder(ret.out)
    /\ (/\ ~HasEscape(local.template)
        /\ (Placeholders(local.template) \ {<<>>}) \ DOMAIN local.values # {})
         => ret.exc # NoExc
    /\ (ret.exc = NoExc /\ ~HasEscape(local.template))
         => (Placeholders(local.template) \ {<<>>}) \subseteq DOMAIN local.values
    /\ ret.exc # NoExc => ret.exc.type \in {"KeyError", "ValueError"} /\ ret.out = <<>>
    /\ ~HasDollar(local.template) => ret = [exc |-> NoExc, out |-> local.template]

\* "${a}" with the value "x" for a has given "x".
C12_Witness ==
  /\ Substituted
  /\ local.template = <<"$", "{", "a", "}">>
  /\ local.values = (<<"a">> :> <<"x">>)
  /\ ret = [exc |-> NoExc, out |-> <<"x">>]

\* C12 as stated: whenever substitution returns a string, the string holds
\* no placeholder syntax.
C12_NoPlaceholderRemains ==
  (Substituted /\ ret.exc = NoExc) => ~HasPlaceholder(ret.out)

\* C13: every score of an evaluation result lies in 1..10: an
\* EvaluatorResponse with a score below 1 or above 10 fails validation, so
\* the state's evaluator_score_card, whenever it is set, holds only values
\* between 1 and 10 (and so does the evaluation file the step has written).
C13_ScoresInRange ==
  script = "test_flow" =>
    /\ state.evaluator_score_card # None =>
         \A k \in DOMAIN state.evaluator_score_card[1] :
           state.evaluator_score_card[1][k] >= 1 /\ state.evaluator_score_card[1][k] <= 10
    /\ (files.evaluation_result.t = "dict" /\ "score_card" \in DOMAIN files.evaluation_result.d) =>
         \A k \in DOMAIN files.evaluation_result.d.score_card.d :
           /\ files.evaluation_result.d.score_card.d[k].n >= 1
           /\ files.evaluation_result.d.score_card.d[k].n <= 10
    /\ \A i \in DOMAIN log :
         (IsStep(i, "lecture_evaluator") /\ log[i].res.exc = "ValidationError") =>
            state.evaluator_score_card = None

\* The evaluator's score 7 is in the state.
C13_Witness ==
  /\ script = "test_flow"
  /\ state.evaluator_score_card = Some([p1 |-> 7])
  /\ files.evaluation_result.t = "dict"

FileOf == [lecture_creation |-> "guide_outline", lecture_evaluator |-> "evaluation_result"]
WrittenByRun(f) == f.t \notin {"absent", "stale", "truncated"}
\* HelloFlow was started and its run is over.
FlowRan ==
  /\ script = "test_flow" /\ pc \in {"final", "exited"}
  /\ \E i \in DOMAIN log : IsStep(i, "send_email")

\* C15: a step of HelloFlow overwrites its output file when its LLM call
\* and the validation succeed and the file can be written; a step that
\* fails before it opens the file leaves the file as it was, and a failure
\* while dumping leaves an emptied file.
C15_FileWrittenBySuccessfulStep ==
  script = "test_flow" =>
    \A name \in DOMAIN FileOf :
      /\ WrittenByRun(files[FileOf[name]])
           <=> \E i \in DOMAIN log : IsStep(i, name) /\ ~Raised(i)
      /\ files[FileOf[name]] = Truncated
           => \E i \in DOMAIN log : IsStep(i, name) /\ log[i].res.exc = "OSError"

\* The run is over: lecture_creation wrote guide_outline.json, the
\* evaluator failed and evaluation_result.json is the one of an earlier run.
C15_Witness ==
  /\ FlowRan
  /\ files.guide_outline.t = "dict"
  /\ files.evaluation_result = Stale
  /\ \E i \in DOMAIN log : IsStep(i, "lecture_evaluator") /\ Raised(i)

\* C15 as stated: after a run each output file holds content of that run.
C15_FilesAlwaysOverwritten ==
  FlowRan => \A name \in DOMAIN FileOf : WrittenByRun(files[FileOf[name]])

\* C16: every call of a function-tool sender (send_email of 2_lab2_part3,
\* send_html_email of 3_lab3_part1 and 4_lab4_part1) returns a status
\* record: "success" when the provider accepted the email, and "failed" with
\* the error when the submission failed.
C16_FunctionToolReturnsStatus ==
  \A i \in DOMAIN log :
    (log[i].ev = "tool" /\ log[i].name \in MailTools) =>
      /\ "status" \in DOMAIN log[i].res
      /\ log[i].res.status \in {"success", "failed"}
      /\ log[i].res.status = "failed" => "error" \in DOMAIN log[i].res

LlmSteps == {"lecture_creation", "lecture_evaluator"}
LlmCalls(name) == {i \in DOMAIN log : log[i].ev = "llm" /\ log[i].name = name}
MailToolCalls == {i \in DOMAIN log : log[i].ev = "tool" /\ log[i].name \in MailTools \cup {"SendMail"}}

\* C17: nothing is retried. In a run each step of HelloFlow is run at most
\* once and makes at most one LLM call, and each call of a mail tool makes at
\* most one submission to the mail provider, failed or not.
C17_NothingRetried ==
  /\ [](/\ \A name \in LlmSteps :
            /\ Cardinality(LlmCalls(name)) <= 1
            /\ Cardinality({i \in DOMAIN log : IsStep(i, name)}) <= 1
        /\ Len(outbox) <= Cardinality(MailToolCalls))
  /\ [][Len(outbox') <= Len(outbox) + 1]_vars

\* Both LLM steps of the flow have made their call and the crew's mail tool
\* was refused by the provider: one submission stands for the one call.
C17_Witness ==
  /\ script = "test_flow"
  /\ \A name \in LlmSteps : Cardinality(LlmCalls(name)) = 1
  /\ Cardinality(MailToolCalls) = 1
  /\ Len(outbox) = 1
  /\ ~outbox[1].accepted

StepsReturned == {i \in DOMAIN log : log[i].ev = "step" /\ log[i].name \in LlmSteps /\ ~Raised(i)}
StepsRaised == {i \in DOMAIN log : log[i].ev = "step" /\ log[i].name \in LlmSteps /\ Raised(i)}

\* C18: a failing step of HelloFlow stores its message "Error calling LLM:
\* <e>" in the state's field greeting and returns it; greeting is written
\* by failing steps only, and the fields of the successful results
\* (greeting_message, important_points, lecture_content,
\* evaluator_score_card, mail_drafter_crew_result) are left as they were.
C18_FailureMessageInGreetingOnly ==
  /\ [](script = "test_flow" =>
          /\ state.greeting # None <=> ret.t = "str"
          /\ StepsRaised # {} => state.greeting # None
          /\ state.greeting # None => state.greeting[1].fmt = "Error calling LLM: ")
  /\ [][ state'.greeting # state.greeting =>
           /\ ret'.t = "str"
           /\ state'.greeting = Some(ret'.s)
           /\ ResultFields(state') = ResultFields(state)
           /\ state'.mail_drafter_crew_result = state.mail_drafter_crew_result ]_vars

\* lecture_creation stored its results, then lecture_evaluator failed: the
\* message is in greeting and greeting_message still holds the greeting.
C18_Witness ==
  /\ script = "test_flow"
  /\ \E i \in StepsReturned : log[i].name = "lecture_creation"
  /\ \E i \in StepsRaised : log[i].name = "lecture_evaluator"
  /\ state.greeting_message # None
  /\ state.greeting # None
  /\ state.greeting[1].fmt = "Error calling LLM: "

\* C18 as stated: the field that takes the failure message is the field a
\* successful step stores its result in, so a step that succeeded wrote it.
C18_SuccessAndFailureShareField ==
  (script = "test_flow" /\ StepsReturned # {}) => state.greeting # None

DraftRuns == {i \in DOMAIN log : log[i].ev = "run" /\ log[i].agent = "Sales Agent"}
PickerRuns == {i \in DOMAIN log : log[i].ev = "run_streamed" /\ log[i].agent = "Sales Picker"}

\* C19: the draft-selection script launches a fixed set of three draft
\* calls, and the picker agent is started only when all three have
\* completed; its input holds the three drafts, one of each call.
C19_PickerAfterAllDrafts ==
  script = "lab2_part2" =>
    /\ Len(tasks) \in {0, NumDraftAgents}
    /\ Cardinality(DraftRuns) = Len(tasks)
    /\ Cardinality(PickerRuns) <= 1
    /\ \A p \in PickerRuns :
         /\ Len(tasks) = NumDraftAgents
         /\ AllDone(tasks)
         /\ \A d \in DraftRuns : d < p
         /\ Len(log[p].arg) = NumDraftAgents
         /\ \A k \in 1..NumDraftAgents :
              log[p].arg[k] = tasks[k].result /\ log[p].arg[k].of = k

\* The picker was started after the drafts completed in another order than
\* they were launched in.
C19_Witness ==
  /\ script = "lab2_part2"
  /\ PickerRuns # {}
  /\ order = <<3, 1, 2>>
  /\ \A k \in 1..NumDraftAgents : results[k].of = k

InputFields == {"name", "audience_level", "topic"}
AddedFields == {"greeting_message", "important_points", "lecture_content",
                "evaluator_score_card", "mail_drafter_crew_result"}
\* HelloFlow has been built and kickoff has assigned the inputs to its state.
FlowRunning ==
  /\ script = "test_flow"
  /\ pc \in {"lecture_creation", "lecture_evaluator", "send_email", "crew", "final"}

C21_CallsDoNotInterfere ==
  [][ pc = "gather" =>
        /\ env' = env
        /\ plan' = plan
        /\ Len(tasks') = Len(tasks)
        /\ Cardinality({i \in 1..Len(tasks) : tasks'[i] # tasks[i]}) <= 1
        /\ \A i \in 1..Len(tasks) :
             /\ tasks[i].status # "pending" => tasks'[i] = tasks[i]
             /\ tasks'[i].status = "done" => tasks'[i].result \in Outputs(i) ]_vars

\* Two calls are done, in another order than they were launched in and with
\* different outputs, while a third is still running.
C21_Witness ==
  /\ pc = "gather"
  /\ Len(tasks) = 3
  /\ tasks[1].status = "pending"
  /\ order = <<3, 2>>
  /\ tasks[2].result.v # tasks[3].result.v
  /\ tasks[2].result.of = 2 /\ tasks[3].result.of = 3

SendEmailSteps == {i \in DOMAIN log : IsStep(i, "send_email")}

\* C22: once lecture_creation or lecture_evaluator has failed in a run of
\* HelloFlow, the MailDrafter crew is not kicked off: send_email is invoked
\* with the error string, fails with an AttributeError when it reads a field
\* of it, and no mail tool is called and no email submitted.
C22_NoCrewAfterFailure ==
  (script = "test_flow" /\ StepsRaised # {}) =>
    /\ pc # "crew"
    /\ outbox = <<>>
    /\ MailToolCalls = {}
    /\ state.mail_drafter_crew_result = None
    /\ ~Printed("Result after running crew - 'Mail Drafter' - ")
    /\ \A i \in SendEmailSteps :
         /\ log[i].arg = <<"str">>
         /\ Raised(i)
         /\ log[i].res.exc = "AttributeError"

\* lecture_evaluator failed and send_email has been invoked after it.
C22_Witness ==
  /\ script = "test_flow"
  /\ \E i \in StepsRaised : log[i].name = "lecture_evaluator"
  /\ SendEmailSteps # {}
  /\ pc = "final"
  /\ Printed("Inside Send Email Function")
  /\ outbox = <<>>

FlowOrder == <<"lecture_creation", "lecture_evaluator", "send_email">>
IsStepEntry(e) == e.ev = "step"
StepEntries == SelectSeq(log, IsStepEntry)

\* C23: in a run of HelloFlow the steps are invoked in the order
\* lecture_creation, lecture_evaluator, send_email, each once and each after
\* the step before it has returned, and each is passed what the step before
\* it returned (the state object, or the error string of a failed step).
C23_StepsChained ==
  script = "test_flow" =>
    /\ Len(StepEntries) <= Len(FlowOrder)
    /\ \A k \in 1..Len(StepEntries) :
         /\ StepEntries[k].name = FlowOrder[k]
         /\ StepEntries[k].arg =
              << IF k = 1 THEN "none"
                 ELSE IF StepEntries[k - 1].res.status = "raised" THEN "str"
                 ELSE "state" >>
    /\ pc = "lecture_creation" => Len(StepEntries) = 0
    /\ pc = "lecture_evaluator" => Len(StepEntries) = 1
    /\ pc = "send_email" => Len(StepEntries) = 2
    /\ pc \in {"crew", "final"} => Len(StepEntries) = 3
    /\ pc = "send_email" => (ret.t = "str" <=> StepEntries[2].res.status = "raised")

\* The three steps have run; the first failed, so the other two were passed
\* its error string.
C23_Witness ==
  /\ script = "test_flow"
  /\ pc = "final"
  /\ Len(StepEntries) = 3
  /\ StepEntries[1].res.status = "raised"
  /\ StepEntries[2].arg = <<"str">>
  /\ StepEntries[3].arg = <<"str">>

\* C24: whenever the research pipeline has printed "Email sent", the
\* send_html_email tool was called in the run and returned the status
\* "success", the provider having accepted the email.
C24_EmailSentMeansSubmitted ==
  (script = "lab4_part1" /\ Printed("Email sent")) =>
    /\ \E i \in DOMAIN log :
         /\ log[i].ev = "tool" /\ log[i].name = "send_html_email"
         /\ "status" \in DOMAIN log[i].res
         /\ log[i].res.status = "success"
    /\ \E k \in DOMAIN outbox : outbox[k].accepted

\* C25: an output file of HelloFlow is written only after the response was
\* decoded and validated: what guide_outline.json holds passes
\* GeneratedResponse, what evaluation_result.json holds passes
\* EvaluatorResponse (every score of its score card in 1..10), and a step
\* that touches its file has not failed in decoding or validation.
C25_WrittenFilesAreValid ==
  /\ [](script = "test_flow" =>
          /\ WrittenByRun(files.guide_outline) =>
               GeneratedResponse(files.guide_outline).exc = NoExc
          /\ WrittenByRun(files.evaluation_result) =>
               /\ EvaluatorResponse(files.evaluation_result).exc = NoExc
               /\ "score_card" \in DOMAIN files.evaluation_result.d =>
                    \A k \in DOMAIN files.evaluation_result.d.score_card.d :
                      files.evaluation_result.d.score_card.d[k].n \in ScoreMin..ScoreMax)
  /\ [][ (script = "test_flow" /\ files' # files) =>
           \/ Last(log').res.status = "returned"
           \/ Last(log').res.exc = "OSError" ]_vars

\* Both files were written in the run, the second with a score card.
C25_Witness ==
  /\ script = "test_flow"
  /\ WrittenByRun(files.guide_outline)
  /\ WrittenByRun(files.evaluation_result)
  /\ "score_card" \in DOMAIN files.evaluation_result.d
  /\ files.evaluation_result.d.score_card.d.p1.n = 7
  /\ state.evaluator_score_card # None

CreationFields == {"greeting_message", "important_points", "lecture_content"}

\* C26: lecture_creation sets greeting_message, important_points and
\* lecture_content together, to the fields of the validated response, when
\* it succeeds, and leaves all three as they were when it fails, a failed
\* file write included; a failure leaves name, audience_level and topic as
\* they were too.
C26_CreationAllOrNothing ==
  [][ (script = "test_flow" /\ pc = "lecture_creation") =>
        /\ \A f \in InputFields : state'[f] = state[f]
        /\ IF Last(log').res.status = "returned"
           THEN /\ \A f \in CreationFields : state'[f] # None
                /\ LET parsed == GeneratedResponse(files'.guide_outline).val[1]
                   IN /\ state'.greeting_message = Some(parsed.greeting_message)
                      /\ state'.important_points = Some(parsed.important_points)
                      /\ state'.lecture_content = Some(parsed.lecture_content)
           ELSE \A f \in CreationFields : state'[f] = state[f] ]_vars

\* lecture_creation failed while it wrote the file: the file is emptied and
\* none of the three fields is set.
C26_Witness ==
  /\ script = "test_flow"
  /\ \E i \in StepsRaised : log[i].name = "lecture_creation" /\ log[i].res.exc = "OSError"
  /\ files.guide_outline = Truncated
  /\ \A f \in CreationFields : state[f] = None
  /\ \A f \in InputFields : state[f] # None

Handoffs == {i \in DOMAIN log : /\ log[i].ev = "handoff"
                                /\ log[i].agent = "Sales Manager"
                                /\ log[i].name = "Email Manager"}

\* C27: in the guardrail/handoff script the Sales Manager's tools are the
\* four sales agents only; send_html_email is called by the Email Manager
\* only, so an email is submitted only after the Sales Manager has handed
\* off to the Email Manager.
C27_MailOnlyAfterHandoff ==
  script = "lab3_part1" =>
    /\ AgentTools(script, "Sales Manager") = SalesTools
    /\ Cardinality(SalesTools) = 4
    /\ SalesTools \cap MailTools = {}
    /\ \A i \in DOMAIN log :
         log[i].ev = "tool" =>
           /\ log[i].agent = "Sales Manager" => log[i].name \in SalesTools
           /\ log[i].name \in MailTools =>
                /\ log[i].agent = "Email Manager"
                /\ \E h \in Handoffs : h < i
    /\ outbox # <<>> => Handoffs # {}
    /\ agent = "Email Manager" => Handoffs # {}

\* The Email Manager, handed off to, has submitted an email.
C27_Witness ==
  /\ script = "lab3_part1"
  /\ Handoffs # {}
  /\ Len(outbox) = 1
  /\ Last(log).ev = "tool" /\ Last(log).name = "send_html_email"
  /\ Last(log).agent = "Email Manager"

ProviderMessages == {"OpenAI API Error : ", "OpenAI APU Error : "}
ProviderFailures ==
  {i \in DOMAIN log : log[i].ev = "step" /\ Raised(i) /\ IsInstance(log[i].res.exc, "OpenAIError")}

C29_FixedSenderAndRecipient ==
  /\ \A k \in DOMAIN outbox :
       /\ outbox[k].from = FromEmail
       /\ outbox[k].to = ToEmail
       /\ outbox[k].to \notin {outbox[k].subject, outbox[k].body}
  /\ \A j, k \in DOMAIN outbox :
       (outbox[j].subject # outbox[k].subject \/ outbox[j].body # outbox[k].body) =>
         (outbox[j].from = outbox[k].from /\ outbox[j].to = outbox[k].to)

\* Two emails with different subjects were submitted in one run.
C29_Witness ==
  /\ Len(outbox) = 2
  /\ outbox[1].subject # outbox[2].subject
  /\ outbox[1].to = outbox[2].to
  /\ outbox[1].from = outbox[2].from

====
